---- MODULE Spec2Model ----
(***************************************************************************)
(* Model of the analysis core of ai-workshop-cursor:                       *)
(*   src/analysis_framework.py       AnalysisFramework (session, metadata  *)
(*                                   cache, performance advisor,           *)
(*                                   aggregation validation)               *)
(*   src/analysis/sanity_checker.py  SanityChecker                         *)
(* Text (labels, column names, query text) is a sequence of one-character  *)
(* strings so that lower(), replace() and the `in` substring test are      *)
(* computed as Python computes them.  Numbers carry their Python type      *)
(* (int / float / None / NaN); a float is an exact fraction n/d.           *)
(***************************************************************************)
EXTENDS Integers, Sequences, FiniteSets, TLC

(***************************************************************************)
(* Bounds of the model.                                                    *)
(***************************************************************************)
MaxRows == 2        \* explicit rows of the raw table
MaxSteps == 2
MaxExecTime == 1

(***************************************************************************)
(* Program constants.                                                      *)
(***************************************************************************)
RawLimit == 100             \* LIMIT 100 of the raw-sample query
DefaultNumCases == 3        \* num_cases: int = 3
LargeTableRows == 1000000   \* row_count > 1000000
MediumTableRows == 100000   \* row_count > 100000

(***************************************************************************)
(* Text.                                                                   *)
(***************************************************************************)
\* the element of a one-element set: The({e(v) : v \in {d}}) is e with v
\* standing for the value of d
The(S) == CHOOSE x \in S : TRUE

UpperLetters ==
  <<"A","B","C","D","E","F","G","H","I","J","K","L","M",
    "N","O","P","Q","R","S","T","U","V","W","X","Y","Z">>
LowerLetters ==
  <<"a","b","c","d","e","f","g","h","i","j","k","l","m",
    "n","o","p","q","r","s","t","u","v","w","x","y","z">>

SeqToSet(s) == {s[i] : i \in 1..Len(s)}

UpperToLower ==
  [c \in SeqToSet(UpperLetters) |-> LowerLetters[CHOOSE i \in 1..26 : UpperLetters[i] = c]]
LowerToUpper ==
  [c \in SeqToSet(LowerLetters) |-> UpperLetters[CHOOSE i \in 1..26 : LowerLetters[i] = c]]

LowerChar(c) == IF c \in DOMAIN UpperToLower THEN UpperToLower[c] ELSE c
UpperChar(c) == IF c \in DOMAIN LowerToUpper THEN LowerToUpper[c] ELSE c

\* str.lower()
Lower(s) == [i \in 1..Len(s) |-> LowerChar(s[i])]
\* str.upper()
Upper(s) == [i \in 1..Len(s) |-> UpperChar(s[i])]

\* s[i:].startswith(p), 1-based
StartsAt(s, p, i) ==
  /\ i + Len(p) - 1 <= Len(s)
  /\ \A j \in 1..Len(p) : s[i + j - 1] = p[j]

\* `p in s` on strings
Contains(s, p) == \E i \in 1..(Len(s) + 1) : StartsAt(s, p, i)

\* s.replace(p, ''): non-overlapping occurrences, left to right
RECURSIVE RemoveFrom(_, _, _)
RemoveFrom(s, p, i) ==
  IF i > Len(s) THEN <<>>
  ELSE IF Len(p) > 0 /\ StartsAt(s, p, i) THEN RemoveFrom(s, p, i + Len(p))
  ELSE <<s[i]>> \o RemoveFrom(s, p, i + 1)

Remove(s, p) == RemoveFrom(s, p, 1)

\* str.strip()
RECURSIVE StripLeft(_)
StripLeft(s) ==
  IF Len(s) > 0 /\ Head(s) = " " THEN StripLeft(Tail(s)) ELSE s

RECURSIVE StripRight(_)
StripRight(s) ==
  IF Len(s) > 0 /\ s[Len(s)] = " " THEN StripRight(SubSeq(s, 1, Len(s) - 1)) ELSE s

Strip(s) == StripRight(StripLeft(s))

\* ' '.join(...)-style concatenation used to write texts from words
RECURSIVE Words(_)
Words(ws) ==
  IF Len(ws) = 0 THEN <<>>
  ELSE IF Len(ws) = 1 THEN ws[1]
  ELSE ws[1] \o <<" ">> \o Words(Tail(ws))

(***************************************************************************)
(* Values as pandas hands them to the code.                                *)
(*   none : Python None (SQL NULL in an object column)                     *)
(*   nan  : float NaN (SQL NULL in a numeric column)                       *)
(*   int  : numpy/Python integer n                                         *)
(*   float: float64 with the exact value n/d, d > 0, in lowest terms       *)
(*   str  : the text s                                                     *)
(***************************************************************************)
NoneV == [t |-> "none", n |-> 0, d |-> 1, s |-> <<>>]
NanV == [t |-> "nan", n |-> 0, d |-> 1, s |-> <<>>]
IntV(k) == [t |-> "int", n |-> k, d |-> 1, s |-> <<>>]
StrV(str) == [t |-> "str", n |-> 0, d |-> 1, s |-> str]

Abs(k) == IF k < 0 THEN -k ELSE k

RECURSIVE Gcd(_, _)
Gcd(a, b) == IF b = 0 THEN a ELSE Gcd(b, a % b)

FloatV(num, den) ==
  LET g == Gcd(Abs(num), den)
  IN  [t |-> "float", n |-> num \div g, d |-> den \div g, s |-> <<>>]

\* pd.notna(v)
NotNa(v) == v.t \notin {"none", "nan"}
\* isinstance(v, str)
IsStr(v) == v.t = "str"
\* isinstance(v, float): numpy.float64 is a Python float, numpy.int64 is not
IsFloat(v) == v.t \in {"float", "nan"}
IsNumber(v) == v.t \in {"int", "float"}

\* str(v) as an f-string renders the value in a WHERE clause
Digits == <<"0","1","2","3","4","5","6","7","8","9">>
RECURSIVE NatText(_)
NatText(k) ==
  IF k < 10 THEN <<Digits[k + 1]>> ELSE NatText(k \div 10) \o <<Digits[(k % 10) + 1]>>

Render(v) ==
  CASE v.t = "str" -> v.s
    [] v.t = "int" -> IF v.n < 0 THEN <<"-">> \o NatText(-v.n) ELSE NatText(v.n)
    [] v.t = "none" -> <<"N","o","n","e">>
    [] v.t = "nan" -> <<"n","a","n">>
    [] OTHER -> NatText(Abs(v.n)) \o <<"/">> \o NatText(v.d)

(***************************************************************************)
(* The store.  Table t has columns g (text, nullable), h (integer, the     *)
(* same value in every row) and one numeric, nullable metric column whose  *)
(* name is xname.  Its contents are the multiset of the explicit rows      *)
(* `rows` (a sorted tuple of indices into RowVals) plus bulk[TName] further *)
(* copies of BulkRow.  Table ev has bulk[EvName] rows and a created_at     *)
(* column; its rows are not inspected.                                      *)
(***************************************************************************)
VARIABLES
  rows,            \* store: explicit rows of table t
  bulk,            \* store: number of further (identical) rows per table
  xname,           \* store: name of the metric column of table t
  connected,       \* AnalysisFramework.connection / analyzers are set
  steps,           \* AnalysisFramework.steps
  table_metadata,  \* AnalysisFramework.table_metadata
  last             \* outcome of the last call: what it returned or raised


TName == <<"t">>
EvName == <<"e","v">>
Tables == {TName, EvName}

GCol == <<"g">>
HCol == <<"h">>
IdCol == <<"i","d">>
CreatedAt == <<"c","r","e","a","t","e","d","_","a","t">>
OccurredAt == <<"o","c","c","u","r","r","e","d","_","a","t">>
Timestamp == <<"t","i","m","e","s","t","a","m","p">>
\* the two names the metric column can have
XPlain == <<"x">>
XSum == <<"s","u","m","x">>
XNames == {XPlain, XSum}

GVals == <<StrV(<<"a">>), NoneV>>
XVals == <<IntV(1), IntV(2), NoneV>>
HVal == IntV(1)

RowVals ==
  [i \in 1..(Len(GVals) * Len(XVals)) |->
     [g |-> GVals[((i - 1) \div Len(XVals)) + 1], x |-> XVals[((i - 1) % Len(XVals)) + 1]]]

BulkRow == [g |-> StrV(<<"a">>), x |-> IntV(1)]

\* the explicit rows, as rows
ExplicitRows(rs) == [i \in 1..Len(rs) |-> RowVals[rs[i]]]

\* sorted tuples of row indices of length at most n: the multisets of rows
RECURSIVE SortedRows(_)
SortedRows(n) ==
  IF n = 0 THEN {<<>>}
  ELSE LET shorter == SortedRows(n - 1)
       IN  shorter \cup
           {Append(rs, i) : rs \in {r \in shorter : Len(r) = n - 1}, i \in 1..Len(RowVals)}

IsSorted(rs) == \A i \in 1..(Len(rs) - 1) : rs[i] <= rs[i + 1]

TableSpace == {rs \in SortedRows(MaxRows) : IsSorted(rs)}

\* information_schema.columns of a table, in ordinal position
ColumnsOf(table, xn) ==
  IF table = TName THEN <<GCol, HCol, xn>>
  ELSE IF table = EvName THEN <<IdCol, CreatedAt>>
  ELSE <<>>

\* SELECT COUNT(*) FROM table
RowCountOf(table, rs, bk) ==
  IF table = TName THEN Len(rs) + bk[TName] ELSE bk[table]

(***************************************************************************)
(* What the store answers.  A multiset of rows of t is a record            *)
(* [expl: the explicit rows in it, nbulk: how many copies of BulkRow].     *)
(***************************************************************************)
RECURSIVE SumX(_)
SumX(rs) ==
  IF Len(rs) = 0 THEN 0
  ELSE (IF NotNa(Head(rs).x) THEN Head(rs).x.n ELSE 0) + SumX(Tail(rs))

BagLen(b) == Len(b.expl) + b.nbulk
BagNonNull(b) ==
  Len(SelectSeq(b.expl, LAMBDA r : NotNa(r.x))) + (IF NotNa(BulkRow.x) THEN b.nbulk ELSE 0)
BagSum(b) == SumX(b.expl) + (IF NotNa(BulkRow.x) THEN b.nbulk * BulkRow.x.n ELSE 0)

\* pandas' dtype inference for a numeric column read from the store
\* (read_sql_query, coerce_float=True): all NULL -> object column of None;
\* some NULL, or any non-integer -> float64 with NaN; otherwise int64.
ColumnCells(cells) ==
  IF \A i \in 1..Len(cells) : ~NotNa(cells[i])
  THEN [i \in 1..Len(cells) |-> NoneV]
  ELSE IF \E i \in 1..Len(cells) : cells[i].t # "int"
  THEN [i \in 1..Len(cells) |->
          IF NotNa(cells[i]) THEN FloatV(cells[i].n, cells[i].d) ELSE NanV]
  ELSE cells

\* the WHERE of an aggregation query: "all" rows, or only rows with x > 1
PassWhere(r, w) == w = "all" \/ (NotNa(r.x) /\ r.x.n > 1)

GroupBag(ex, nb, key, w) ==
  [expl |-> SelectSeq(ex, LAMBDA r : r.g = key /\ PassWhere(r, w)),
   nbulk |-> IF BulkRow.g = key /\ PassWhere(BulkRow, w) THEN nb ELSE 0]

WholeBag(ex, nb, w) ==
  [expl |-> SelectSeq(ex, LAMBDA r : PassWhere(r, w)),
   nbulk |-> IF PassWhere(BulkRow, w) THEN nb ELSE 0]

\* COUNT(*), SUM(x), AVG(x) of a multiset; SUM and AVG of no value are NULL
SqlAggregate(func, b) ==
  CASE func = "count" -> IntV(BagLen(b))
    [] func = "sum" -> IF BagNonNull(b) = 0 THEN NoneV ELSE IntV(BagSum(b))
    [] OTHER -> IF BagNonNull(b) = 0 THEN NoneV ELSE FloatV(BagSum(b), BagNonNull(b))

Reverse(s) == [i \in 1..Len(s) |-> s[Len(s) + 1 - i]]

\* the groups of GROUP BY g, in the order of ORDER BY g [DESC]
GroupKeys(ex, nb, w, desc) ==
  LET present == SelectSeq(GVals, LAMBDA k : BagLen(GroupBag(ex, nb, k, w)) > 0)
  IN  IF desc THEN Reverse(present) ELSE present

\* A data frame is [columns: the labels in order, rows: a tuple of functions
\* from label to value].
EmptyFrame == [columns |-> <<>>, rows |-> <<>>]

\* The result of an aggregation query q on table t:
\*   SELECT <by>, <func> AS <label> FROM t [WHERE x > 1] [GROUP BY <by>] [ORDER BY g [DESC]]
AggFrame(q, rs, nb) ==
  LET ex == ExplicitRows(rs)
      keys == IF Len(q.by) = 0 THEN <<NoneV>> ELSE GroupKeys(ex, nb, q.where, q.desc)
      bagOf(k) == IF Len(q.by) = 0 THEN WholeBag(ex, nb, q.where)
                  ELSE GroupBag(ex, nb, k, q.where)
      aggs == ColumnCells([i \in 1..Len(keys) |-> SqlAggregate(q.func, bagOf(keys[i]))])
      cols == q.by \o <<q.label>>
  IN  [columns |-> cols,
       rows |-> [i \in 1..Len(keys) |->
                   [c \in SeqToSet(cols) |->
                      IF c = q.label THEN aggs[i]
                      ELSE IF c = GCol THEN keys[i]
                      ELSE HVal]]]

\* one cell of a row of t
RowCell(r, col, xn) ==
  IF col = GCol THEN r.g ELSE IF col = HCol THEN HVal ELSE r.x

\* SQL `col = literal`: never true of NULL
SqlEquals(cell, lit) == NotNa(cell) /\ cell = lit

MatchesAll(r, conds, xn) ==
  \A i \in 1..Len(conds) : SqlEquals(RowCell(r, conds[i].col, xn), conds[i].val)

\* The store rejects SELECT * FROM <table> WHERE <conds> LIMIT n when the
\* WHERE clause is empty (a syntax error), the table is not t, or a column
\* is unknown.
RawRejected(raw, xn) ==
  \/ raw.table # TName
  \/ Len(raw.conds) = 0
  \/ \E i \in 1..Len(raw.conds) : raw.conds[i].col \notin SeqToSet(ColumnsOf(TName, xn))

\* the raw-data query without its LIMIT: every matching row is returned
RawSampleUncapped(raw, rs, nb, xn, keep) ==
  LET ex == ExplicitRows(rs)
      hit == SelectSeq(ex, LAMBDA r : MatchesAll(r, raw.conds, xn))
  IN  [expl |-> hit, nbulk |-> IF MatchesAll(BulkRow, raw.conds, xn) THEN nb ELSE 0]

\* The rows SELECT * FROM t WHERE <conds> LIMIT RawLimit returns.  Without
\* ORDER BY the store returns any RawLimit of the matching rows: `keep` is the
\* set of positions of explicit rows that come before the limit cuts.
RawSample(raw, rs, nb, xn, keep) ==
  LET ex == ExplicitRows(rs)
      hit == {i \in 1..Len(ex) : MatchesAll(ex[i], raw.conds, xn)}
      nbHit == IF MatchesAll(BulkRow, raw.conds, xn) THEN nb ELSE 0
      pick(S) == SelectSeq([i \in 1..Len(ex) |-> [pos |-> i, row |-> ex[i]]],
                           LAMBDA e : e.pos \in S)
      rowsOf(S) == [i \in 1..Len(pick(S)) |-> pick(S)[i].row]
  IN  IF Cardinality(hit) + nbHit <= RawLimit
      THEN [expl |-> rowsOf(hit), nbulk |-> nbHit]
      ELSE LET kept == IF nbHit + Cardinality(hit \cap keep) >= RawLimit
                       THEN hit \cap keep ELSE hit
               need == RawLimit - Cardinality(kept)
           IN  [expl |-> rowsOf(kept), nbulk |-> IF need < nbHit THEN need ELSE nbHit]

(***************************************************************************)
(* Query texts.  The store's reading of a text is its catalogue entry: the *)
(* program only ever sees the text.                                        *)
(***************************************************************************)
kwSelect == <<"S","E","L","E","C","T">>
kwFrom == <<"F","R","O","M">>
kwWhere == <<"W","H","E","R","E">>
kwGroupBy == <<"G","R","O","U","P"," ","B","Y">>
kwOrderBy == <<"O","R","D","E","R"," ","B","Y">>
kwDesc == <<"D","E","S","C">>
kwAs == <<"A","S">>
kwAnd == <<"A","N","D">>
kwLimit == <<"L","I","M","I","T">>
kwCount == <<"c","o","u","n","t">>
kwCountStar == <<"C","O","U","N","T","(","*",")">>
kwSumOpen == <<"S","U","M","(">>
kwAvgOpen == <<"A","V","G","(">>
kwSum == <<"s","u","m">>
kwAvg == <<"a","v","g">>
kwMrr == <<"m","r","r">>

\* the SQL expression of an aggregate
AggExpr(func, xn) ==
  CASE func = "count" -> kwCountStar
    [] func = "sum" -> kwSumOpen \o xn \o <<")">>
    [] OTHER -> kwAvgOpen \o xn \o <<")">>

\* the label of the aggregate column in the result:
\*   "call"  AS "SUM(x)"   the expression itself
\*   "pg"    no alias: the store's default label (count, sum, avg)
\*   "alias" AS mrr        a business name
AggLabel(func, style, xn) ==
  CASE style = "call" -> AggExpr(func, xn)
    [] style = "alias" -> kwMrr
    [] OTHER -> (CASE func = "count" -> kwCount [] func = "sum" -> kwSum [] OTHER -> kwAvg)

Comma(cols) ==
  IF Len(cols) = 2 THEN cols[1] \o <<",">> \o <<" ">> \o cols[2]
  ELSE IF Len(cols) = 1 THEN cols[1] ELSE <<>>

AggText(func, style, by, where, desc, table, xn) ==
  Words(
    <<kwSelect>>
    \o (IF Len(by) > 0 THEN <<Comma(by) \o <<",">> >> ELSE <<>>)
    \o <<AggExpr(func, xn)>>
    \o (IF style = "pg" THEN <<>> ELSE <<kwAs, AggLabel(func, style, xn)>>)
    \o <<kwFrom, table>>
    \o (IF where = "all" THEN <<>> ELSE <<kwWhere, xn, <<">">>, <<"1">> >>)
    \o (IF Len(by) > 0 THEN <<kwGroupBy, Comma(by)>> ELSE <<>>)
    \o (IF desc THEN <<kwOrderBy, GCol, kwDesc>> ELSE <<>>))

AggQuery(func, style, by, where, desc, table, xn) ==
  [kind |-> "agg", text |-> AggText(func, style, by, where, desc, table, xn),
   func |-> func, label |-> AggLabel(func, style, xn), by |-> by,
   where |-> where, desc |-> desc, table |-> table]

\* a text the store cannot parse
BadText == <<"S","E","L","E","C","T"," ","F","R","O","M">>
BadQuery ==
  [kind |-> "bad", text |-> BadText, func |-> "count", label |-> kwCount, by |-> <<>>,
   where |-> "all", desc |-> FALSE, table |-> TName]

Funcs == {"count", "sum", "avg"}
Styles == {"call", "pg", "alias"}
Bys == {<<GCol>>, <<GCol, HCol>>}

\* every query of the model, for a given name of the metric column
Catalogue(xn) ==
  {AggQuery(f, s, b, w, d, TName, xn) :
     f \in Funcs, s \in Styles, b \in Bys, w \in {"all", "x>1"}, d \in BOOLEAN}
  \cup {AggQuery("count", "alias", <<>>, "all", FALSE, EvName, xn)}
  \cup {BadQuery}

\* the store's reading of a text
CatalogueByName == [xn \in XNames |-> Catalogue(xn)]
TextsByName == [xn \in XNames |-> {q.text : q \in Catalogue(xn)}]

Meaning(text, xn) ==
  IF text \in TextsByName[xn]
  THEN CHOOSE q \in CatalogueByName[xn] : q.text = text
  ELSE BadQuery

\* the data frame the store returns for a text it accepts
StoreFrame(text, st) ==
  LET q == Meaning(text, st.xname)
  IN  IF q.table = EvName
      THEN [columns |-> <<q.label>>,
            rows |-> << [c \in {q.label} |-> IntV(st.bulk[EvName])] >>]
      ELSE AggFrame(q, st.rows, st.bulk[TName])

\* the store rejects a text: it cannot parse it, or the call is one of those
\* that fail this time (fail: the kinds of query the store rejects during
\* the call), or there is no connection
Rejects(text, kind, st) ==
  \/ ~st.up
  \/ kind \in st.fail
  \/ Meaning(text, st.xname).kind = "bad"

FailKinds == {"meta", "explain", "main", "agg", "raw", "read"}

(***************************************************************************)
(* AnalysisFramework.get_table_metadata                                    *)
(* Returns [entry, cache, queries]: the entry handed to the caller, the    *)
(* cache afterwards and the number of store queries issued.                *)
(***************************************************************************)
MetaError == [row_count |-> NoneV, columns |-> <<>>, error |-> TRUE]

\* the cache is not consulted: every call asks the store
get_table_metadata_refetching(table_name, cache, st) ==
  IF ~st.up \/ "meta" \in st.fail \/ table_name \notin Tables
  THEN [entry |-> MetaError, cache |-> cache, queries |-> 1]
  ELSE LET metadata == [row_count |-> IntV(RowCountOf(table_name, st.rows, st.bulk)),
                        columns |-> ColumnsOf(table_name, st.xname),
                        error |-> FALSE]
       IN  [entry |-> metadata,
            cache |-> [t \in DOMAIN cache \cup {table_name} |->
                         IF t = table_name THEN metadata ELSE cache[t]],
            queries |-> 2]

\* the entry of a failed lookup is kept in the cache
get_table_metadata_memoizing_errors(table_name, cache, st) ==
  IF table_name \in DOMAIN cache
  THEN [entry |-> cache[table_name], cache |-> cache, queries |-> 0]
  ELSE IF ~st.up \/ "meta" \in st.fail \/ table_name \notin Tables
  THEN [entry |-> MetaError,
        cache |-> [t \in DOMAIN cache \cup {table_name} |->
                     IF t = table_name THEN MetaError ELSE cache[t]],
        queries |-> 1]
  ELSE LET metadata == [row_count |-> IntV(RowCountOf(table_name, st.rows, st.bulk)),
                        columns |-> ColumnsOf(table_name, st.xname),
                        error |-> FALSE]
       IN  [entry |-> metadata,
            cache |-> [t \in DOMAIN cache \cup {table_name} |->
                         IF t = table_name THEN metadata ELSE cache[t]],
            queries |-> 2]

get_table_metadata(table_name, cache, st) ==
  IF table_name \in DOMAIN cache
  THEN [entry |-> cache[table_name], cache |-> cache, queries |-> 0]
  ELSE IF ~st.up \/ "meta" \in st.fail \/ table_name \notin Tables
  THEN [entry |-> MetaError, cache |-> cache, queries |-> 1]
  ELSE LET metadata == [row_count |-> IntV(RowCountOf(table_name, st.rows, st.bulk)),
                        columns |-> ColumnsOf(table_name, st.xname),
                        error |-> FALSE]
       IN  [entry |-> metadata,
            cache |-> [t \in DOMAIN cache \cup {table_name} |->
                         IF t = table_name THEN metadata ELSE cache[t]],
            queries |-> 2]

(***************************************************************************)
(* AnalysisFramework.check_performance_considerations                      *)
(***************************************************************************)
DateKeywords == <<CreatedAt, OccurredAt, Timestamp>>

\* row_count and row_count > n
Truthy(rc) == NotNa(rc) /\ rc.n # 0
\* the threshold itself counts as large
IsLargeFromThreshold(rc) == Truthy(rc) /\ rc.n >= LargeTableRows
IsLarge(rc) == Truthy(rc) /\ rc.n > LargeTableRows
IsMedium(rc) == Truthy(rc) /\ rc.n > MediumTableRows

HasDateColumn(metadata) ==
  \E i \in 1..Len(metadata.columns) : metadata.columns[i] \in SeqToSet(DateKeywords)

\* 'WHERE' in query.upper() and any(date_col in query.upper() for date_col in [...])
DateFilterDetected(query) ==
  LET upper == Upper(query)
  IN  /\ Contains(upper, kwWhere)
      /\ \E i \in 1..Len(DateKeywords) : Contains(upper, DateKeywords[i])

\* one turn of the loop over the tables
PerfForTable(query, table, acc, st) ==
  LET got == get_table_metadata(table, acc.cache, st)
      rc == got.entry.row_count
      size == IF IsLarge(rc)
              THEN <<[kind |-> "large_table", table |-> table, row_count |-> rc.n]>>
              ELSE IF IsMedium(rc)
              THEN <<[kind |-> "medium_table", table |-> table, row_count |-> rc.n]>>
              ELSE <<>>
      dated == HasDateColumn(got.entry)
      good == dated /\ DateFilterDetected(query)
  IN  [warnings |-> acc.warnings \o size \o
                    (IF dated /\ ~good
                     THEN <<[kind |-> "add_date_filter", table |-> table, row_count |-> 0]>>
                     ELSE <<>>),
       recommendations |-> acc.recommendations \o
                    (IF good THEN <<[kind |-> "date_filter_detected", table |-> table]>>
                     ELSE <<>>),
       estimated_cost |-> IF IsLarge(rc) THEN "high"
                          ELSE IF IsMedium(rc) THEN "medium"
                          ELSE acc.estimated_cost,
       cache |-> got.cache,
       queries |-> acc.queries + got.queries]

RECURSIVE PerfLoop(_, _, _, _)
PerfLoop(query, tables, acc, st) ==
  IF Len(tables) = 0 THEN acc
  ELSE PerfLoop(query, Tail(tables), PerfForTable(query, Head(tables), acc, st), st)

\* returns the considerations, with the cache afterwards
check_performance_considerations(query, tables, cache, st) ==
  PerfLoop(query, tables,
           [warnings |-> <<>>, recommendations |-> <<>>, estimated_cost |-> "low",
            cache |-> cache, queries |-> 0],
           st)

(***************************************************************************)
(* AnalysisFramework._extract_table_names                                  *)
(*   re.findall(r'FROM\s+(\w+)', query, re.IGNORECASE), the same for JOIN, *)
(*   then list(set(...)): the set of the names, in no defined order.       *)
(***************************************************************************)
WordChars ==
  SeqToSet(UpperLetters) \cup SeqToSet(LowerLetters)
  \cup {"0","1","2","3","4","5","6","7","8","9","_"}

IsWordChar(c) == c \in WordChars

IsSpace(c) == c = " "

\* the end of the longest run of characters satisfying the test from i on
RECURSIVE SpaceEnd(_, _)
SpaceEnd(s, i) == IF i <= Len(s) /\ IsSpace(s[i]) THEN SpaceEnd(s, i + 1) ELSE i
RECURSIVE WordEnd(_, _)
WordEnd(s, i) == IF i <= Len(s) /\ IsWordChar(s[i]) THEN WordEnd(s, i + 1) ELSE i

\* the matches of kw\s+(\w+) in s, scanning left to right without overlap:
\* starts holds the positions where the keyword stands (case ignored)
RECURSIVE FindAllAfter(_, _, _, _)
FindAllAfter(kwlen, s, starts, from) ==
  IF \A i \in starts : i < from THEN <<>>
  ELSE LET i == CHOOSE p \in starts : p >= from /\ \A o \in starts : o >= from => p <= o
           a == i + kwlen            \* first character after the keyword
           b == SpaceEnd(s, a)       \* first character of the name
           c == WordEnd(s, b)        \* first character after the name
       IN  IF b > a /\ c > b
           THEN <<SubSeq(s, b, c - 1)>> \o FindAllAfter(kwlen, s, starts, c)
           ELSE FindAllAfter(kwlen, s, starts, i + 1)

FindAll(kw, s) ==
  LET low == Lower(s)
      lkw == Lower(kw)
      starts == {i \in 1..Len(s) : StartsAt(low, lkw, i)}
  IN  FindAllAfter(Len(kw), s, starts, 1)

kwJoin == <<"J","O","I","N">>

extract_table_set(query) == SeqToSet(FindAll(kwFrom, query) \o FindAll(kwJoin, query))

\* the lists list(set(...)) can be
Orderings(S) ==
  {f \in [1..Cardinality(S) -> S] : \A i, j \in 1..Cardinality(S) : i # j => f[i] # f[j]}

(***************************************************************************)
(* AnalysisFramework.execute_query                                         *)
(*   kind is the model's name for the call site, et the time measured.     *)
(*   Returns [raised, df, metadata].                                       *)
(***************************************************************************)
kwExplain == <<"E","X","P","L","A","I","N">>

\* a plan the store refuses aborts the call
execute_query_aborting_on_plan(query, explain, kind, et, st) ==
  IF Rejects(query, kind, st) \/ (explain /\ Rejects(query, "explain", st))
  THEN [raised |-> TRUE, df |-> EmptyFrame,
        metadata |-> [execution_time |-> 0, row_count |-> 0, columns |-> <<>>,
                      explain_plan |-> "empty"]]
  ELSE LET result_df == StoreFrame(query, st)
       IN  [raised |-> FALSE, df |-> result_df,
            metadata |-> [execution_time |-> et,
                          row_count |-> Len(result_df.rows),
                          columns |-> result_df.columns,
                          explain_plan |-> IF explain THEN "plan" ELSE "empty"]]

execute_query(query, explain, kind, et, st) ==
  LET explain_info ==
        IF explain /\ ~Rejects(query, "explain", st) THEN "plan" ELSE "empty"
  IN  IF Rejects(query, kind, st)
      THEN [raised |-> TRUE, df |-> EmptyFrame,
            metadata |-> [execution_time |-> 0, row_count |-> 0, columns |-> <<>>,
                          explain_plan |-> "empty"]]
      ELSE LET result_df == StoreFrame(query, st)
           IN  [raised |-> FALSE, df |-> result_df,
                metadata |-> [execution_time |-> et,
                              row_count |-> Len(result_df.rows),
                              columns |-> result_df.columns,
                              explain_plan |-> explain_info]]

(***************************************************************************)
(* AnalysisFramework.validate_aggregation                                  *)
(***************************************************************************)
\* the conditions of one sampled row: a column of segment_columns
\* contributes when the row has it and its value is not null
RECURSIVE where_conditions(_, _, _)
where_conditions(segment_columns, segment_row, columns) ==
  IF Len(segment_columns) = 0 THEN <<>>
  ELSE LET col == Head(segment_columns)
           rest == where_conditions(Tail(segment_columns), segment_row, columns)
       IN  IF col \in SeqToSet(columns) /\ NotNa(segment_row[col])
           THEN <<[col |-> col, val |-> segment_row[col]]>> \o rest
           ELSE rest

\* f"{col} = '{value}'" for a str, f"{col} = {value}" otherwise
CondText(c) ==
  IF IsStr(c.val)
  THEN Words(<<c.col, <<"=">>, <<"'">> \o Render(c.val) \o <<"'">> >>)
  ELSE Words(<<c.col, <<"=">>, Render(c.val)>>)

\* " AND ".join(where_conditions)
RECURSIVE where_clause(_)
where_clause(conds) ==
  IF Len(conds) = 0 THEN <<>>
  ELSE IF Len(conds) = 1 THEN CondText(conds[1])
  ELSE CondText(conds[1]) \o <<" ">> \o kwAnd \o <<" ">> \o where_clause(Tail(conds))

\* the raw-data query: its text, and the store's reading of that text
raw_data_query(table_name, conds) ==
  [text |-> Words(<<kwSelect, <<"*">>, kwFrom, table_name, kwWhere,
                    where_clause(conds), kwLimit, NatText(RawLimit) \o <<";">> >>),
   table |-> table_name,
   conds |-> conds]

\* the aggregate recomputed from the raw sample (raw_df)
ExpectedCount(raw_df) == IntV(BagLen(raw_df))

\* raw_df[col].sum() if col in raw_df.columns else None
\* (an int64 column sums to an integer, a float64 column - one holding a
\* NULL - to a float, an object column of None, or no row at all, to 0)
ExpectedSum(col, raw_df, xn) ==
  IF col \notin SeqToSet(ColumnsOf(TName, xn)) THEN NoneV
  ELSE IF col = HCol THEN IntV(BagLen(raw_df) * HVal.n)
  ELSE IF col # xn THEN NoneV
  ELSE IF BagNonNull(raw_df) = 0 THEN IntV(0)
  ELSE IF BagNonNull(raw_df) = BagLen(raw_df) THEN IntV(BagSum(raw_df))
  ELSE FloatV(BagSum(raw_df), 1)

\* raw_df[col].mean() if col in raw_df.columns else None
ExpectedMean(col, raw_df, xn) ==
  IF col \notin SeqToSet(ColumnsOf(TName, xn)) THEN NoneV
  ELSE IF col = HCol THEN (IF BagLen(raw_df) = 0 THEN NanV ELSE FloatV(HVal.n, 1))
  ELSE IF col # xn THEN NoneV
  ELSE IF BagNonNull(raw_df) = 0 THEN NanV
  ELSE FloatV(BagSum(raw_df), BagNonNull(raw_df))

expected_value(aggregation_column, raw_df, xn) ==
  IF Lower(aggregation_column) \in {kwCount, Lower(kwCountStar)}
  THEN ExpectedCount(raw_df)
  ELSE IF Contains(Lower(aggregation_column), kwSum)
  THEN ExpectedSum(Strip(Remove(Remove(aggregation_column, kwSumOpen), <<")">>)), raw_df, xn)
  ELSE IF Contains(Lower(aggregation_column), kwAvg)
  THEN ExpectedMean(Strip(Remove(Remove(aggregation_column, kwAvgOpen), <<")">>)), raw_df, xn)
  ELSE NoneV

\* abs(expected - actual) < 0.01 on floats, that is 100 * |e - a| < 1 with
\* e - a = (e.n * a.d - a.n * e.d) / (e.d * a.d); NaN compares false
CloseEnough(e, a) ==
  /\ e.t # "nan" /\ a.t # "nan"
  /\ Abs(e.n * a.d - a.n * e.d) <= ((e.d * a.d) - 1) \div 100

\* expected == actual on numbers; NaN compares false
NumEquals(e, a) ==
  /\ IsNumber(e) /\ IsNumber(a)
  /\ e.n * a.d = a.n * e.d

\* Optional[bool]: "True", "False" or "None"
passed_of(expected, actual) ==
  IF expected.t # "none" /\ actual.t # "none"
  THEN IF IsFloat(expected) /\ IsFloat(actual)
       THEN (IF CloseEnough(expected, actual) THEN "True" ELSE "False")
       ELSE (IF NumEquals(expected, actual) THEN "True" ELSE "False")
  ELSE "None"

\* the store's answer to a raw-data query: [raised, df]
RawFetch(raw, st, keep) ==
  IF ~st.up \/ "raw" \in st.fail \/ RawRejected(raw, st.xname)
  THEN [raised |-> TRUE, df |-> [expl |-> <<>>, nbulk |-> 0]]
  ELSE [raised |-> FALSE, df |-> RawSample(raw, st.rows, st.bulk[TName], st.xname, keep)]

\* the body of the loop for the row at 0-based index idx: [raised, error, case]
ValidationCaseOf(idx, segment_row, columns, aggregation_column, segment_columns, table_name, st, keep) ==
  LET raw == raw_data_query(table_name,
                            where_conditions(segment_columns, segment_row, columns))
      got == RawFetch(raw, st, keep)
      expected == expected_value(aggregation_column, got.df, st.xname)
      NoCase == [case_id |-> idx + 1, description |-> <<>>, raw_data_query |-> raw.text,
                 expected_value |-> NoneV, actual_value |-> NoneV, passed |-> "None",
                 notes |-> 0]
  IN  IF got.raised
      THEN [raised |-> TRUE, error |-> "QueryError", case |-> NoCase]
      ELSE IF aggregation_column \notin SeqToSet(columns)
              \/ \E i \in 1..Len(segment_columns) : segment_columns[i] \notin SeqToSet(columns)
      THEN [raised |-> TRUE, error |-> "KeyError", case |-> NoCase]
      ELSE LET actual == segment_row[aggregation_column]
           IN  [raised |-> FALSE, error |-> "",
                case |-> [case_id |-> idx + 1,
                          description |-> [i \in 1..Len(segment_columns) |->
                                             [col |-> segment_columns[i],
                                              val |-> segment_row[segment_columns[i]]]],
                          raw_data_query |-> raw.text,
                          expected_value |-> expected,
                          actual_value |-> actual,
                          passed |-> passed_of(expected, actual),
                          notes |-> BagLen(got.df)]]

RECURSIVE ValidationLoop(_, _, _, _, _, _, _, _, _)
ValidationLoop(idx, sample_segments, columns, aggregation_column, segment_columns, table_name, st, keep, validation_cases) ==
  IF idx >= Len(sample_segments)
  THEN [raised |-> FALSE, error |-> "", cases |-> validation_cases]
  ELSE LET one == ValidationCaseOf(idx, sample_segments[idx + 1], columns,
                                   aggregation_column, segment_columns, table_name,
                                   st, keep)
       IN  IF one.raised
           THEN [raised |-> TRUE, error |-> one.error, cases |-> validation_cases]
           ELSE ValidationLoop(idx + 1, sample_segments, columns, aggregation_column,
                               segment_columns, table_name, st, keep,
                               Append(validation_cases, one.case))

\* agg_df.head(num_cases)
FrameHead(rws, n) == SubSeq(rws, 1, IF Len(rws) < n THEN Len(rws) ELSE n)

\* every raw-data query carries the aggregation query as a trailing comment
validate_aggregation_quoting_query(aggregation_query, aggregation_column, segment_columns, table_name, num_cases, st, keep) ==
  The({ IF agg.raised
        THEN [raised |-> TRUE, error |-> "QueryError", cases |-> <<>>]
        ELSE The({ [r EXCEPT !.cases =
                      [i \in 1..Len(r.cases) |->
                         [r.cases[i] EXCEPT !.raw_data_query =
                            @ \o <<" ", "-", "-", " ">> \o aggregation_query]]] :
                   r \in {ValidationLoop(0, FrameHead(agg.df.rows, num_cases),
                                         agg.df.columns, aggregation_column,
                                         segment_columns, table_name, st, keep, <<>>)} }) :
        agg \in {execute_query(aggregation_query, FALSE, "agg", 1, st)} })

\* returns [raised, error, cases]
validate_aggregation(aggregation_query, aggregation_column, segment_columns, table_name, num_cases, st, keep) ==
  The({ IF agg.raised
        THEN [raised |-> TRUE, error |-> "QueryError", cases |-> <<>>]
        ELSE ValidationLoop(0, FrameHead(agg.df.rows, num_cases), agg.df.columns,
                            aggregation_column, segment_columns, table_name, st, keep,
                            <<>>) :
        agg \in {execute_query(aggregation_query, FALSE, "agg", 1, st)} })

(***************************************************************************)
(* AnalysisFramework.add_step                                              *)
(*   tables is the list _extract_table_names returned, et the measured     *)
(*   time, keep the store's choice of rows under LIMIT.                    *)
(*   Returns [raised, error, steps, cache, step].                          *)
(***************************************************************************)
NoValidation == [present |-> FALSE, cases |-> <<>>, all_passed |-> FALSE]

\* the digest add_step keeps of a ValidationCase
CaseDigest(case) ==
  [case_id |-> case.case_id, description |-> case.description, passed |-> case.passed,
   expected |-> case.expected_value, actual |-> case.actual_value, notes |-> case.notes]

\* all(c.passed for c in validation_cases if c.passed is not None)
all_passed_of(validation_cases) ==
  \A i \in 1..Len(validation_cases) :
    validation_cases[i].passed # "None" => validation_cases[i].passed = "True"

validation_results_of(validation_cases) ==
  [present |-> TRUE,
   cases |-> [i \in 1..Len(validation_cases) |-> CaseDigest(validation_cases[i])],
   all_passed |-> all_passed_of(validation_cases)]

\* a numbering that starts at 0
next_step_number_from_zero(log) == Len(log)

\* len(self.steps) + 1
next_step_number(log) == Len(log) + 1

\* self.steps.append(step)
append_step(log, step) == Append(log, step)

NoStep ==
  [step_number |-> 0, kind |-> "none", query |-> <<>>, execution_time |-> NoneV,
   row_count |-> NoneV,
   metadata |-> [performance |-> [warnings |-> <<>>, recommendations |-> <<>>,
                                  estimated_cost |-> "low"],
                 columns |-> <<>>, tables_used |-> <<>>, results |-> <<>>],
   validation_results |-> NoValidation]

\* the AnalysisStep of a query that ran
QueryStep(step_num, query, tables, perf, main) ==
  [step_number |-> step_num, kind |-> "query", query |-> query,
   execution_time |-> IntV(main.metadata.execution_time),
   row_count |-> IntV(main.metadata.row_count),
   metadata |-> [performance |-> [warnings |-> perf.warnings,
                                  recommendations |-> perf.recommendations,
                                  estimated_cost |-> perf.estimated_cost],
                 columns |-> main.metadata.columns,
                 tables_used |-> tables,
                 results |-> <<>>],
   validation_results |-> NoValidation]

\* the step is appended before the query runs, and stays when it fails
StepFailedAfterAppend(err, log, perf) ==
  [raised |-> TRUE, error |-> err, log |-> append_step(log, NoStep), cache |-> perf.cache,
   step |-> NoStep, cases |-> <<>>, queries |-> perf.queries]

\* an exception leaves add_step: nothing is appended
StepFailed(err, log, perf) ==
  [raised |-> TRUE, error |-> err, log |-> log, cache |-> perf.cache,
   step |-> NoStep, cases |-> <<>>, queries |-> perf.queries]

\* a case that did not pass makes add_step raise
StepDoneUnlessMismatch(log, perf, step, cases) ==
  IF \E i \in 1..Len(cases) : cases[i].passed = "False"
  THEN [raised |-> TRUE, error |-> "ValidationMismatch", log |-> log,
        cache |-> perf.cache, step |-> NoStep, cases |-> <<>>, queries |-> perf.queries]
  ELSE [raised |-> FALSE, error |-> "", log |-> append_step(log, step),
        cache |-> perf.cache, step |-> step, cases |-> cases, queries |-> perf.queries]

\* self.steps.append(step); return step
StepDone(log, perf, step, cases) ==
  [raised |-> FALSE, error |-> "", log |-> append_step(log, step),
   cache |-> perf.cache, step |-> step, cases |-> cases, queries |-> perf.queries]

\* the step is appended before it is validated, and stays when validation raises
add_step_appending_before_validation(query, validate, aggregation_column, segment_columns, table_name, tables, et, keep, log, cache, st) ==
  The({ IF main.raised THEN StepFailed("QueryError", log, perf)
        ELSE IF validate /\ Len(aggregation_column) > 0 /\ Len(segment_columns) > 0
                /\ Len(table_name) > 0
        THEN The({ IF val.raised
                   THEN [StepFailed(val.error, log, perf) EXCEPT !.log = append_step(log, step)]
                   ELSE StepDone(log, perf,
                                 [step EXCEPT !.validation_results =
                                                validation_results_of(val.cases)],
                                 val.cases) :
                   val \in {validate_aggregation(query, aggregation_column,
                                                 segment_columns, table_name,
                                                 DefaultNumCases, st, keep)},
                   step \in {QueryStep(next_step_number(log), query, tables, perf,
                                       main)} })
        ELSE StepDone(log, perf,
                      QueryStep(next_step_number(log), query, tables, perf, main), <<>>) :
        perf \in {check_performance_considerations(query, tables, cache, st)},
        main \in {execute_query(query, TRUE, "main", et, st)} })

add_step(query, validate, aggregation_column, segment_columns, table_name, tables, et, keep, log, cache, st) ==
  The({ IF main.raised THEN StepFailed("QueryError", log, perf)
        ELSE IF validate /\ Len(aggregation_column) > 0 /\ Len(segment_columns) > 0
                /\ Len(table_name) > 0
        THEN The({ IF val.raised THEN StepFailed(val.error, log, perf)
                   ELSE StepDone(log, perf,
                                 [step EXCEPT !.validation_results =
                                                validation_results_of(val.cases)],
                                 val.cases) :
                   val \in {validate_aggregation(query, aggregation_column,
                                                 segment_columns, table_name,
                                                 DefaultNumCases, st, keep)},
                   step \in {QueryStep(next_step_number(log), query, tables, perf,
                                       main)} })
        ELSE StepDone(log, perf,
                      QueryStep(next_step_number(log), query, tables, perf, main), <<>>) :
        perf \in {check_performance_considerations(query, tables, cache, st)},
        main \in {execute_query(query, TRUE, "main", et, st)} })

(***************************************************************************)
(* AnalysisFramework.get_analysis_summary                                  *)
(***************************************************************************)
RECURSIVE SumTimes(_)
SumTimes(log) ==
  IF Len(log) = 0 THEN 0
  ELSE (IF NotNa(Head(log).execution_time) THEN Head(log).execution_time.n ELSE 0)
       + SumTimes(Tail(log))

\* has_validation is taken from the verdict of the validation
get_analysis_summary_by_verdict(log) ==
  [total_steps |-> Len(log),
   total_execution_time |-> SumTimes(log),
   steps |-> [i \in 1..Len(log) |->
                [step_number |-> log[i].step_number,
                 kind |-> log[i].kind,
                 row_count |-> log[i].row_count,
                 execution_time |-> log[i].execution_time,
                 has_validation |-> log[i].validation_results.present
                                    /\ log[i].validation_results.all_passed,
                 validation_passed |->
                   IF log[i].validation_results.present
                   THEN (IF log[i].validation_results.all_passed THEN "True" ELSE "False")
                   ELSE "None"]]]

\* validation_passed is "True", "False" or "None"
get_analysis_summary(log) ==
  [total_steps |-> Len(log),
   total_execution_time |-> SumTimes(log),
   steps |-> [i \in 1..Len(log) |->
                [step_number |-> log[i].step_number,
                 kind |-> log[i].kind,
                 row_count |-> log[i].row_count,
                 execution_time |-> log[i].execution_time,
                 has_validation |-> log[i].validation_results.present,
                 validation_passed |->
                   IF log[i].validation_results.present
                   THEN (IF log[i].validation_results.all_passed THEN "True" ELSE "False")
                   ELSE "None"]]]

(***************************************************************************)
(* SanityChecker (src/analysis/sanity_checker.py).                         *)
(* The checks query table t; a query fails when the store rejects it this  *)
(* time (st.failchecks names the failing checks), when it names a column   *)
(* or table that does not exist, or when it divides by zero.               *)
(***************************************************************************)
VARIABLES
  rules,          \* SanityChecker.rules
  check_results   \* SanityChecker.check_results

vars == <<rows, bulk, xname, connected, steps, table_metadata, last, rules, check_results>>

KnownColumn(table, col, xn) == col \in SeqToSet(ColumnsOf(table, xn))

\* every row a table can hold
AllRows == {RowVals[i] : i \in 1..Len(RowVals)} \cup {BulkRow}

\* the number of rows of t satisfying ok, a function from rows to BOOLEAN
CountWhere(st, ok) ==
  Len(SelectSeq(ExplicitRows(st.rows), LAMBDA r : ok[r]))
  + (IF ok[BulkRow] THEN st.bulk[TName] ELSE 0)

\* ROUND(100.0 * a / b, 2), as a float (half away from zero), b > 0
RoundPct(a, b) == FloatV((20000 * a + b) \div (2 * b), 100)

\* a check's query is rejected
CheckFails(id, table, cols, st) ==
  \/ ~st.up
  \/ id \in st.failchecks
  \/ table # TName
  \/ \E i \in 1..Len(cols) : ~KnownColumn(table, cols[i], st.xname)

CheckRecord(name, column, status, severity, value, pct) ==
  [check_name |-> name, column |-> column, status |-> status, severity |-> severity,
   value |-> value, pct |-> pct]

ErrorRecord(name, column) == CheckRecord(name, column, "error", "error", NoneV, NoneV)

\* ---- _check_nulls ----
NullRecord(col, total_rows, non_null_count) ==
  LET null_count == total_rows - non_null_count
      status == IF null_count = 0 THEN "passed" ELSE "failed"
      severity == IF null_count > 0 THEN "error" ELSE "info"
  IN  CheckRecord(<<"null_check", col>>, col, status, severity, IntV(null_count),
                  RoundPct(null_count, total_rows))

NullCheck(i, col, table, st) ==
  LET total_rows == CountWhere(st, [r \in AllRows |-> TRUE])
      non_null_count == CountWhere(st, [r \in AllRows |-> NotNa(RowCell(r, col, st.xname))])
  IN  IF CheckFails([cat |-> "null", i |-> i], table, <<col>>, st) \/ total_rows = 0
      THEN ErrorRecord(<<"null_check", col>>, col)
      ELSE NullRecord(col, total_rows, non_null_count)

\* a check whose query fails is left out of the list
check_nulls_skipping_errors(table, table_rules, st) ==
  SelectSeq([i \in 1..Len(table_rules.critical_columns) |->
               NullCheck(i, table_rules.critical_columns[i], table, st)],
            LAMBDA c : c.status # "error")

check_nulls(table, table_rules, st) ==
  [i \in 1..Len(table_rules.critical_columns) |->
     NullCheck(i, table_rules.critical_columns[i], table, st)]

\* ---- _check_duplicates ----
PrimaryKeyRecord(total, unique) ==
  LET duplicates == total - unique
      status == IF duplicates = 0 THEN "passed" ELSE "failed"
      severity == IF duplicates > 0 THEN "error" ELSE "info"
  IN  CheckRecord(<<"primary_key_duplicates">>, <<>>, status, severity,
                  IntV(duplicates), NoneV)

\* table t has no id column: COUNT(DISTINCT id) is rejected
PrimaryKeyCheck(table, st) ==
  IF CheckFails([cat |-> "pk", i |-> 0], table, <<IdCol>>, st)
  THEN ErrorRecord(<<"primary_key_duplicates">>, <<>>)
  ELSE PrimaryKeyRecord(CountWhere(st, [r \in AllRows |-> TRUE]), CountWhere(st, [r \in AllRows |-> TRUE]))

\* key.split('.')[-1]
RECURSIVE AfterLastDot(_, _)
AfterLastDot(s, i) ==
  IF i = 0 THEN s
  ELSE IF s[i] = "." THEN SubSeq(s, i + 1, Len(s))
  ELSE AfterLastDot(s, i - 1)

BusinessKeyColumn(key) == IF Contains(key, <<".">>) THEN AfterLastDot(key, Len(key)) ELSE key

\* the values of a column of t, without NULL
ColumnValues(col, st) ==
  {RowCell(r, col, st.xname) :
     r \in {rr \in SeqToSet(ExplicitRows(st.rows)) \cup
                   (IF st.bulk[TName] > 0 THEN {BulkRow} ELSE {}) :
              NotNa(RowCell(rr, col, st.xname))}}

BusinessKeyRecord(col, duplicate_count) ==
  LET status == IF duplicate_count = 0 THEN "passed" ELSE "failed"
      severity == IF duplicate_count > 0 THEN "warning" ELSE "info"
  IN  CheckRecord(<<"business_key_duplicates", col>>, col, status, severity,
                  IntV(duplicate_count), NoneV)

DuplicateGroupLimit == 10

\* GROUP BY col HAVING COUNT(*) > 1 LIMIT 10: the number of rows returned
DuplicateGroups(col, st) ==
  LET n == Cardinality({v \in ColumnValues(col, st) :
                          CountWhere(st, [r \in AllRows |-> RowCell(r, col, st.xname) = v]) > 1})
  IN  IF n > DuplicateGroupLimit THEN DuplicateGroupLimit ELSE n

BusinessKeyCheck(i, key, table, st) ==
  LET col == BusinessKeyColumn(key)
  IN  IF CheckFails([cat |-> "bk", i |-> i], table, <<col>>, st)
      THEN ErrorRecord(<<"business_key_duplicates", col>>, col)
      ELSE BusinessKeyRecord(col, DuplicateGroups(col, st))

check_duplicates(table, table_rules, st) ==
  <<PrimaryKeyCheck(table, st)>> \o
  [i \in 1..Len(table_rules.business_keys) |->
     BusinessKeyCheck(i, table_rules.business_keys[i], table, st)]

\* ---- _check_consistency ----
IsTextColumn(col) == col = GCol

DateRangeRecord(start_col, end_col, invalid_count) ==
  LET status == IF invalid_count = 0 THEN "passed" ELSE "failed"
      severity == IF invalid_count > 0 THEN "error" ELSE "info"
  IN  CheckRecord(<<"date_range_consistency", start_col, end_col>>, <<>>, status,
                  severity, IntV(invalid_count), NoneV)

\* start IS NOT NULL AND end IS NOT NULL AND start > end
InvalidRange(r, start_col, end_col, xn) ==
  LET a == RowCell(r, start_col, xn)
      b == RowCell(r, end_col, xn)
  IN  NotNa(a) /\ NotNa(b) /\ (IF IsStr(a) THEN FALSE ELSE a.n > b.n)

DateRangeCheck(i, rule, table, st) ==
  LET name == <<"date_range_consistency", rule.start, rule.end>>
  IN  IF \/ CheckFails([cat |-> "date", i |-> i], table, <<rule.start, rule.end>>, st)
         \/ IsTextColumn(rule.start) # IsTextColumn(rule.end)
      THEN ErrorRecord(name, <<>>)
      ELSE DateRangeRecord(rule.start, rule.end,
             CountWhere(st, [r \in AllRows |-> InvalidRange(r, rule.start, rule.end, st.xname)]))

NumericRangeRecord(col, out_of_range) ==
  LET status == IF out_of_range = 0 THEN "passed" ELSE "failed"
      severity == IF out_of_range > 0 THEN "warning" ELSE "info"
  IN  CheckRecord(<<"numeric_range", col>>, col, status, severity, IntV(out_of_range),
                  NoneV)

\* the bounds themselves count as out of range
OutOfRangeAtBounds(r, col, min_val, max_val, xn) ==
  LET v == RowCell(r, col, xn)
  IN  NotNa(v) /\ (v.n <= min_val.n \/ v.n >= max_val.n)

\* col < min OR col > max
OutOfRange(r, col, min_val, max_val, xn) ==
  LET v == RowCell(r, col, xn)
  IN  NotNa(v) /\ (v.n < min_val.n \/ v.n > max_val.n)

NumericRangeCheck(i, rule, table, st) ==
  IF \/ CheckFails([cat |-> "num", i |-> i], table, <<rule.column>>, st)
     \/ IsTextColumn(rule.column)
  THEN ErrorRecord(<<"numeric_range", rule.column>>, rule.column)
  ELSE NumericRangeRecord(rule.column,
         CountWhere(st, [r \in AllRows |-> OutOfRange(r, rule.column, rule.min, rule.max, st.xname)]))

EnumRecord(col_name, unexpected) ==
  LET unexpected_count == Cardinality(unexpected)
      status == IF unexpected_count = 0 THEN "passed" ELSE "failed"
      severity == IF unexpected_count > 0 THEN "warning" ELSE "info"
  IN  CheckRecord(<<"enum_consistency", col_name>>, col_name, status, severity,
                  IntV(unexpected_count), NoneV)

\* set(df['value'].str.lower().str.strip()) - set(str(v).lower().strip() for v in expected)
UnexpectedValues(actual, expected_values) ==
  {Strip(Lower(v.s)) : v \in actual}
  \ {Strip(Lower(expected_values[i])) : i \in 1..Len(expected_values)}

\* .str raises on a column that holds numbers
EnumCheck(i, rule, table, st) ==
  IF \/ CheckFails([cat |-> "enum", i |-> i], table, <<rule.name>>, st)
     \/ (~IsTextColumn(rule.name) /\ ColumnValues(rule.name, st) # {})
  THEN ErrorRecord(<<"enum_consistency", rule.name>>, rule.name)
  ELSE EnumRecord(rule.name, UnexpectedValues(ColumnValues(rule.name, st),
                                              rule.expected_values))

\* a rule that lacks a part is skipped: it yields no record
DateRuleUsable(rule) == Len(rule.start) > 0 /\ Len(rule.end) > 0
NumericRuleUsable(rule) ==
  Len(rule.column) > 0 /\ rule.min.t # "none" /\ rule.max.t # "none"
EnumRuleUsable(rule) == Len(rule.name) > 0 /\ Len(rule.expected_values) > 0

RECURSIVE DateRangeChecks(_, _, _, _)
DateRangeChecks(i, rs, table, st) ==
  IF i > Len(rs) THEN <<>>
  ELSE (IF DateRuleUsable(rs[i]) THEN <<DateRangeCheck(i, rs[i], table, st)>> ELSE <<>>)
       \o DateRangeChecks(i + 1, rs, table, st)

RECURSIVE NumericRangeChecks(_, _, _, _)
NumericRangeChecks(i, rs, table, st) ==
  IF i > Len(rs) THEN <<>>
  ELSE (IF NumericRuleUsable(rs[i]) THEN <<NumericRangeCheck(i, rs[i], table, st)>>
        ELSE <<>>)
       \o NumericRangeChecks(i + 1, rs, table, st)

RECURSIVE EnumChecks(_, _, _, _)
EnumChecks(i, rs, table, st) ==
  IF i > Len(rs) THEN <<>>
  ELSE (IF EnumRuleUsable(rs[i]) THEN <<EnumCheck(i, rs[i], table, st)>> ELSE <<>>)
       \o EnumChecks(i + 1, rs, table, st)

check_consistency(table, table_rules, st) ==
  DateRangeChecks(1, table_rules.date_ranges, table, st)
  \o NumericRangeChecks(1, table_rules.numeric_ranges, table, st)
  \o EnumChecks(1, table_rules.categorical_columns, table, st)

\* ---- _check_completeness ----
CompletenessThreshold == 95

\* the threshold itself does not pass
MoreThan(v, k) == v.n > k * v.d

\* completeness >= threshold, completeness a float n/d
AtLeast(v, k) == v.n >= k * v.d

CompletenessRecord(col, total, non_null) ==
  LET completeness == RoundPct(non_null, total)
      status == IF AtLeast(completeness, CompletenessThreshold) THEN "passed" ELSE "failed"
      severity == IF ~AtLeast(completeness, CompletenessThreshold) THEN "warning" ELSE "info"
  IN  CheckRecord(<<"completeness", col>>, col, status, severity, IntV(non_null),
                  completeness)

CompletenessCheck(i, col, table, st) ==
  LET total == CountWhere(st, [r \in AllRows |-> TRUE])
      non_null == CountWhere(st, [r \in AllRows |-> NotNa(RowCell(r, col, st.xname))])
  IN  IF CheckFails([cat |-> "comp", i |-> i], table, <<col>>, st) \/ total = 0
      THEN ErrorRecord(<<"completeness", col>>, col)
      ELSE CompletenessRecord(col, total, non_null)

check_completeness(table, table_rules, st) ==
  [i \in 1..Len(table_rules.required_columns) |->
     CompletenessCheck(i, table_rules.required_columns[i], table, st)]

\* ---- run_sanity_checks ----
NoTableRules ==
  [critical_columns |-> <<>>, required_columns |-> <<>>, business_keys |-> <<>>,
   date_ranges |-> <<>>, numeric_ranges |-> <<>>, categorical_columns |-> <<>>]

\* self.rules.get('table_specific_rules', {}).get(table_name, {})
TableRules(rs, table) ==
  IF table \in DOMAIN rs.table_specific_rules THEN rs.table_specific_rules[table]
  ELSE NoTableRules

Categories == <<"null_checks", "duplicate_checks", "consistency_checks", "completeness_checks">>

\* the buckets are chosen by status alone
CountCheckByStatus(summary, check) ==
  [total_checks |-> summary.total_checks + 1,
   passed |-> summary.passed + (IF check.status = "passed" THEN 1 ELSE 0),
   warnings |-> summary.warnings + (IF check.status = "warning" THEN 1 ELSE 0),
   errors |-> summary.errors + (IF check.status = "error" THEN 1 ELSE 0)]

\* the loop that fills the summary: one record at a time
CountCheck(summary, check) ==
  [total_checks |-> summary.total_checks + 1,
   passed |-> summary.passed + (IF check.status = "passed" THEN 1 ELSE 0),
   warnings |-> summary.warnings +
                (IF check.status # "passed" /\ check.severity = "warning" THEN 1 ELSE 0),
   errors |-> summary.errors +
              (IF check.status # "passed" /\ check.severity # "warning"
                  /\ check.severity = "error" THEN 1 ELSE 0)]

RECURSIVE CountChecks(_, _)
CountChecks(summary, checks) ==
  IF Len(checks) = 0 THEN summary
  ELSE CountChecks(CountCheck(summary, Head(checks)), Tail(checks))

\* the counters go on from the report of the run before
SummaryOfEarlierRun ==
  IF Len(check_results) = 0
  THEN [total_checks |-> 0, passed |-> 0, warnings |-> 0, errors |-> 0]
  ELSE check_results[Len(check_results)].summary

EmptySummary == [total_checks |-> 0, passed |-> 0, warnings |-> 0, errors |-> 0]

run_sanity_checks(table_name, rs, st) ==
  LET table_rules == TableRules(rs, table_name)
      nulls == IF rs.enabled.null_checks
               THEN check_nulls(table_name, table_rules, st) ELSE <<>>
      dups == IF rs.enabled.duplicate_checks
              THEN check_duplicates(table_name, table_rules, st) ELSE <<>>
      cons == IF rs.enabled.consistency_checks
              THEN check_consistency(table_name, table_rules, st) ELSE <<>>
      comp == IF rs.enabled.completeness_checks
              THEN check_completeness(table_name, table_rules, st) ELSE <<>>
  IN  [table_name |-> table_name,
       null_checks |-> nulls,
       duplicate_checks |-> dups,
       consistency_checks |-> cons,
       completeness_checks |-> comp,
       summary |-> CountChecks(EmptySummary, nulls \o dups \o cons \o comp)]

(***************************************************************************)
(* EDAAnalyzer.run_eda and DiagnosticAnalyzer.diagnostic_analysis as the   *)
(* session sees them: whether the call raises, and the table it profiled.  *)
(***************************************************************************)
\* df = pd.read_sql_query("SELECT * FROM table", connection) is not guarded
eda_run(table_name, st) ==
  IF ~st.up \/ "read" \in st.fail \/ table_name \notin Tables
  THEN [raised |-> TRUE, results |-> <<>>]
  ELSE [raised |-> FALSE,
        results |-> [table_name |-> table_name,
                     empty |-> RowCountOf(table_name, st.rows, st.bulk) = 0]]

diagnostic_run(df, target_column, segment_columns) ==
  [target_column |-> target_column, segment_columns |-> segment_columns,
   compared |-> SelectSeq(segment_columns, LAMBDA c : c \in SeqToSet(df.columns))]

(***************************************************************************)
(* The state machine.                                                      *)
(***************************************************************************)
Store(fail, failchecks) ==
  [rows |-> rows, bulk |-> bulk, xname |-> xname, up |-> connected,
   fail |-> fail, failchecks |-> failchecks]

NoCall ==
  [op |-> "none", raised |-> FALSE, error |-> "", queries |-> 0, arg |-> <<>>,
   ret |-> <<>>]

Call(op, raised, error, queries, arg, ret) ==
  [op |-> op, raised |-> raised, error |-> error, queries |-> queries, arg |-> arg,
   ret |-> ret]

\* AnalysisFramework.connect: the analyzers are built, the rules are loaded
Connect ==
  /\ ~connected
  /\ connected' = TRUE
  /\ check_results' = <<>>
  /\ last' = Call("connect", FALSE, "", 0, <<>>, <<>>)
  /\ UNCHANGED <<rows, bulk, xname, steps, table_metadata, rules>>

\* add_step(description, query, validate=..., aggregation_column=..., ...)
\* tables is the list self._extract_table_names(query) returned
AddStep(query, tables, validate, aggregation_column, segment_columns, table_name, fail, et, keep) ==
  /\ Len(steps) < MaxSteps
  /\ \E r \in {add_step(query, validate, aggregation_column, segment_columns,
                          table_name, tables, et, keep, steps, table_metadata,
                          Store(fail, {}))} :
         /\ steps' = r.log
         /\ table_metadata' = r.cache
         /\ last' = Call("add_step", r.raised, r.error, r.queries,
                         [query |-> query, tables |-> tables, validate |-> validate,
                          aggregation_column |-> aggregation_column,
                          segment_columns |-> segment_columns,
                          table_name |-> table_name, fail |-> fail, et |-> et,
                          keep |-> keep],
                         [step |-> r.step, cases |-> r.cases])
  /\ UNCHANGED <<rows, bulk, xname, connected, rules, check_results>>

\* AnalysisFramework.run_sanity_checks(table_name)
RunSanityChecks(table_name, failchecks) ==
  /\ Len(steps) < MaxSteps
  /\ IF ~connected
     THEN /\ last' = Call("run_sanity_checks", TRUE, "ValueError", 0,
                          [table_name |-> table_name, failchecks |-> failchecks], <<>>)
          /\ UNCHANGED <<steps, check_results>>
     ELSE \E results \in {run_sanity_checks(table_name, rules, Store({}, failchecks))} :
              /\ check_results' = Append(check_results, results)
              /\ steps' = append_step(steps,
                                      [NoStep EXCEPT !.step_number = next_step_number(steps),
                                                     !.kind = "sanity",
                                                     !.metadata.results = results])
              /\ last' = Call("run_sanity_checks", FALSE, "", 0,
                              [table_name |-> table_name, failchecks |-> failchecks],
                              results)
  /\ UNCHANGED <<rows, bulk, xname, connected, table_metadata, rules>>

\* AnalysisFramework.run_eda(table_name)
RunEda(table_name, fail) ==
  /\ Len(steps) < MaxSteps
  /\ \E r \in {eda_run(table_name, Store(fail, {}))} :
         IF ~connected
         THEN /\ last' = Call("run_eda", TRUE, "ValueError", 0, table_name, <<>>)
              /\ UNCHANGED steps
         ELSE IF r.raised
         THEN /\ last' = Call("run_eda", TRUE, "QueryError", 0, table_name, <<>>)
              /\ UNCHANGED steps
         ELSE /\ steps' = append_step(steps,
                                      [NoStep EXCEPT !.step_number = next_step_number(steps),
                                                     !.kind = "eda",
                                                     !.metadata.results = r.results])
              /\ last' = Call("run_eda", FALSE, "", 0, table_name, r.results)
  /\ UNCHANGED <<rows, bulk, xname, connected, table_metadata, rules, check_results>>

\* AnalysisFramework.run_diagnostic_analysis(query, target_column, segment_columns)
RunDiagnosticAnalysis(query, target_column, segment_columns, fail, et) ==
  /\ Len(steps) < MaxSteps
  /\ \E got \in {execute_query(query, FALSE, "main", et, Store(fail, {}))} :
         IF ~connected
         THEN /\ last' = Call("run_diagnostic_analysis", TRUE, "ValueError", 0, query, <<>>)
              /\ UNCHANGED steps
         ELSE IF got.raised
         THEN /\ last' = Call("run_diagnostic_analysis", TRUE, "QueryError", 0, query, <<>>)
              /\ UNCHANGED steps
         ELSE \E results \in {diagnostic_run(got.df, target_column, segment_columns)} :
              /\ steps' = append_step(steps,
                   [NoStep EXCEPT !.step_number = next_step_number(steps),
                                  !.kind = "diagnostic",
                                  !.query = query,
                                  !.metadata.results = results,
                                  !.row_count = IntV(Len(got.df.rows)),
                                  !.execution_time = IntV(got.metadata.execution_time)])
              /\ last' = Call("run_diagnostic_analysis", FALSE, "", 0, query, results)
  /\ UNCHANGED <<rows, bulk, xname, connected, table_metadata, rules, check_results>>

\* a direct call of get_table_metadata(table_name)
GetTableMetadata(table_name, fail) ==
  /\ \E r \in {get_table_metadata(table_name, table_metadata, Store(fail, {}))} :
         /\ table_metadata' = r.cache
         /\ last' = Call("get_table_metadata", FALSE, "", r.queries,
                         [table_name |-> table_name, fail |-> fail], r.entry)
  /\ UNCHANGED <<rows, bulk, xname, connected, steps, rules, check_results>>

\* a direct call of check_performance_considerations(query, tables)
CheckPerformance(query, tables, fail) ==
  /\ \E r \in {check_performance_considerations(query, tables, table_metadata,
                                                  Store(fail, {}))} :
         /\ table_metadata' = r.cache
         /\ last' = Call("check_performance", FALSE, "", r.queries,
                         [query |-> query, tables |-> tables, fail |-> fail],
                         [warnings |-> r.warnings, recommendations |-> r.recommendations,
                          estimated_cost |-> r.estimated_cost])
  /\ UNCHANGED <<rows, bulk, xname, connected, steps, rules, check_results>>

\* a direct call of validate_aggregation(query, aggregation_column, ...)
ValidateAggregation(query, aggregation_column, segment_columns, table_name, num_cases, fail, keep) ==
  /\ \E r \in {validate_aggregation(query, aggregation_column, segment_columns,
                                      table_name, num_cases, Store(fail, {}), keep)} :
         last' = Call("validate_aggregation", r.raised, r.error, 0,
                      [query |-> query, aggregation_column |-> aggregation_column,
                       segment_columns |-> segment_columns, table_name |-> table_name,
                       num_cases |-> num_cases, fail |-> fail, keep |-> keep],
                      r.cases)
  /\ UNCHANGED <<rows, bulk, xname, connected, steps, table_metadata, rules, check_results>>

\* the store changes under the session: a row is inserted
InsertSorted(rs, i) ==
  LET before == SelectSeq(rs, LAMBDA j : j <= i)
      after == SelectSeq(rs, LAMBDA j : j > i)
  IN  before \o <<i>> \o after

StoreInsert(table, i) ==
  /\ IF table = TName
     THEN /\ Len(rows) < MaxRows
          /\ rows' = InsertSorted(rows, i)
          /\ UNCHANGED bulk
     ELSE /\ bulk[EvName] \in {MediumTableRows, LargeTableRows}
          /\ bulk' = [bulk EXCEPT ![EvName] = @ + 1]
          /\ UNCHANGED rows
  /\ last' = Call("store_insert", FALSE, "", 0, [table |-> table, i |-> i], <<>>)
  /\ UNCHANGED <<xname, connected, steps, table_metadata, rules, check_results>>

(***************************************************************************)
(* The texts of the model with the names _extract_table_names finds in     *)
(* them, computed once.                                                    *)
(***************************************************************************)
AllTexts == UNION {TextsByName[xn] : xn \in XNames}

ExtractedTables == [text \in AllTexts |-> extract_table_set(text)]

\* the lists _extract_table_names(query) can return
extract_table_names(query) ==
  Orderings(IF query \in AllTexts THEN ExtractedTables[query]
            ELSE extract_table_set(query))

(***************************************************************************)
(* Specification Spec: a caller drives one AnalysisFramework session.      *)
(***************************************************************************)
\* sanity_check_rules.yml as loaded: the rules of table t
SessionTableRules ==
  [critical_columns |-> <<GCol>>,
   required_columns |-> <<XPlain>>,
   business_keys |-> << TName \o <<".">> \o GCol >>,
   date_ranges |-> << [start |-> XPlain, end |-> HCol] >>,
   numeric_ranges |-> << [column |-> HCol, min |-> IntV(1), max |-> IntV(1)] >>,
   categorical_columns |-> << [name |-> GCol, expected_values |-> << <<"A">> >>] >>]

AllEnabled ==
  [null_checks |-> TRUE, duplicate_checks |-> TRUE, consistency_checks |-> TRUE,
   completeness_checks |-> TRUE]

SessionRules ==
  [enabled |-> AllEnabled, table_specific_rules |-> [t \in {TName} |-> SessionTableRules]]

\* a correct count, a count over filtered rows, an aliased sum, a broken text
CountByG == AggQuery("count", "call", <<GCol>>, "all", FALSE, TName, XPlain)
FilteredCountByG == AggQuery("count", "pg", <<GCol>>, "x>1", FALSE, TName, XPlain)
AliasedSumByG == AggQuery("sum", "alias", <<GCol>>, "all", FALSE, TName, XPlain)
SessionQueries == {CountByG, FilteredCountByG, AliasedSumByG, BadQuery}

MissingTable == <<"n","o">>

Init ==
  /\ rows = <<1, 2>>
  /\ bulk = [t \in Tables |-> IF t = TName THEN 0 ELSE MediumTableRows]
  /\ xname = XPlain
  /\ connected = FALSE
  /\ steps = <<>>
  /\ table_metadata = [t \in {} |-> MetaError]
  /\ last = NoCall
  /\ rules = SessionRules
  /\ check_results = <<>>

SessionAddStep ==
  \E q \in SessionQueries :
    \E tables \in extract_table_names(q.text) :
      \E validate \in BOOLEAN, fail \in {{}, {"main"}, {"raw"}}, et \in 1..MaxExecTime :
        AddStep(q.text, tables, validate, q.label, q.by, q.table, fail, et, {})

SessionSanity ==
  \E failchecks \in {{}, {[cat |-> "null", i |-> 1]}} :
    RunSanityChecks(TName, failchecks)

SessionEda == \E fail \in {{}, {"read"}} : RunEda(TName, fail)

SessionDiagnostic ==
  \E q \in {CountByG, BadQuery}, fail \in {{}, {"main"}}, et \in 1..MaxExecTime :
    RunDiagnosticAnalysis(q.text, q.label, q.by, fail, et)

Next ==
  \/ Connect
  \/ SessionAddStep
  \/ SessionSanity
  \/ SessionEda
  \/ SessionDiagnostic

Spec == Init /\ [][Next]_vars

(***************************************************************************)
(* Specification SpecCache: the metadata cache and the performance         *)
(* advisor, called directly while the store's tables grow.                 *)
(***************************************************************************)
EvCount == AggQuery("count", "alias", <<>>, "all", FALSE, EvName, XPlain)

InitCache ==
  /\ rows = <<1>>
  /\ bulk \in {[t \in Tables |-> IF t = TName THEN 0 ELSE c] :
                 c \in {MediumTableRows, LargeTableRows}}
  /\ xname = XPlain
  /\ connected = TRUE
  /\ steps = <<>>
  /\ table_metadata = [t \in {} |-> MetaError]
  /\ last = NoCall
  /\ rules = SessionRules
  /\ check_results = <<>>

CacheMetadata ==
  \E table \in Tables \cup {MissingTable}, fail \in {{}, {"meta"}} :
    GetTableMetadata(table, fail)

\* SELECT COUNT(*) AS mrr FROM ev WHERE created_at > 1
DatedEvCountText == Words(<<EvCount.text, kwWhere, CreatedAt, <<">">>, <<"1">> >>)

CachePerformance ==
  \E text \in {CountByG.text, FilteredCountByG.text, DatedEvCountText},
     tables \in {<<TName>>, <<EvName>>, <<EvName, TName>>, <<TName, EvName>>},
     fail \in {{}, {"meta"}} :
    CheckPerformance(text, tables, fail)

CacheAddStep ==
  \E q \in {CountByG, EvCount} :
    \E tables \in extract_table_names(q.text) :
      AddStep(q.text, tables, FALSE, q.label, q.by, q.table, {}, 1, {})

CacheInsert == \E table \in Tables : StoreInsert(table, 1)

NextCache ==
  \/ CacheMetadata
  \/ CachePerformance
  \/ CacheAddStep
  \/ CacheInsert

SpecCache == InitCache /\ [][NextCache]_vars

(***************************************************************************)
(* Specification SpecValidate: validate_aggregation called directly on     *)
(* every table of at most MaxRows explicit rows, with and without          *)
(* RawLimit further rows in segment a.                                     *)
(***************************************************************************)
\* the aggregation queries a caller validates: one segment column
ValidatedQueries(xn) ==
  {AggQuery(f, s, <<GCol>>, w, FALSE, TName, xn) :
     f \in Funcs, s \in Styles, w \in {"all", "x>1"}}

InitValidate ==
  /\ rows = <<>>
  /\ bulk \in {[t \in Tables |-> IF t = TName THEN c ELSE 0] : c \in {0, RawLimit}}
  /\ xname \in XNames
  /\ connected = TRUE
  /\ steps = <<>>
  /\ table_metadata = [t \in {} |-> MetaError]
  /\ last = NoCall
  /\ rules = SessionRules
  /\ check_results = <<>>

ValidateCall ==
  \E q \in ValidatedQueries(xname), keep \in {{}, {1}} :
    /\ (keep # {} => bulk[TName] > 0 /\ Len(rows) > 0)
    /\ ValidateAggregation(q.text, q.label, q.by, q.table, DefaultNumCases, {}, keep)

ValidateInsert == \E i \in 1..Len(RowVals) : StoreInsert(TName, i)

NextValidate ==
  \/ ValidateCall
  \/ ValidateInsert

SpecValidate == InitValidate /\ [][NextValidate]_vars

(***************************************************************************)
(* Specification SpecSanity: run_sanity_checks under several rule sets,    *)
(* with any subset of three of its checks failing in the store.            *)
(***************************************************************************)
\* rules that name a column the table lacks, a text column where a number
\* is wanted, a rule without its end column, a declared value written with a
\* leading blank, a declared set the data is outside of
OddTableRules ==
  [critical_columns |-> <<GCol, IdCol>>,
   required_columns |-> <<GCol, IdCol>>,
   business_keys |-> << XPlain >>,
   date_ranges |-> << [start |-> HCol, end |-> <<>>], [start |-> HCol, end |-> XPlain] >>,
   numeric_ranges |-> << [column |-> GCol, min |-> IntV(1), max |-> IntV(2)],
                         [column |-> XPlain, min |-> IntV(2), max |-> IntV(2)] >>,
   categorical_columns |-> << [name |-> XPlain, expected_values |-> << <<"1">> >>],
                              [name |-> GCol, expected_values |-> << <<" ", "A">> >>],
                              [name |-> GCol, expected_values |-> << <<"b">> >>] >>]

NoConsistency == [AllEnabled EXCEPT !.consistency_checks = FALSE]

RuleSpace ==
  {[enabled |-> e, table_specific_rules |-> [t \in {TName} |-> r]] :
     e \in {AllEnabled, NoConsistency}, r \in {SessionTableRules, OddTableRules}}
  \cup {[enabled |-> AllEnabled, table_specific_rules |-> [t \in {} |-> NoTableRules]]}

FailingChecks ==
  {[cat |-> "null", i |-> 1], [cat |-> "bk", i |-> 1], [cat |-> "enum", i |-> 2]}

\* SanityChecker._load_rules: a file that is missing or that yaml cannot
\* parse gives the empty rule set {}, in which every category is enabled and
\* no table has rules; any other file gives what it holds
EmptyRules == [enabled |-> AllEnabled, table_specific_rules |-> [t \in {} |-> NoTableRules]]

load_rules(doc) ==
  IF doc.kind \in {"missing", "unparseable"} THEN EmptyRules ELSE doc.content

RuleDocuments ==
  {[kind |-> k, content |-> EmptyRules] : k \in {"missing", "unparseable"}}
  \cup {[kind |-> "mapping", content |-> r] : r \in RuleSpace}

InitSanity ==
  /\ rows \in {<<>>, <<1>>}
  /\ bulk = [t \in Tables |-> 0]
  /\ xname = XPlain
  /\ connected = TRUE
  /\ steps = <<>>
  /\ table_metadata = [t \in {} |-> MetaError]
  /\ last = NoCall
  /\ rules \in {load_rules(doc) : doc \in RuleDocuments}
  /\ check_results = <<>>

SanityRun ==
  \E table \in {TName, MissingTable}, failchecks \in SUBSET FailingChecks :
    RunSanityChecks(table, failchecks)

SanityInsert == \E i \in {2, 6} : StoreInsert(TName, i)

NextSanity ==
  \/ SanityRun
  \/ SanityInsert

SpecSanity == InitSanity /\ [][NextSanity]_vars

(***************************************************************************)
(* Properties of the step log (specification Spec).                        *)
(***************************************************************************)
SessionOps == {"add_step", "run_sanity_checks", "run_eda", "run_diagnostic_analysis"}

StepNumbersMatchPositions == \A i \in 1..Len(steps) : steps[i].step_number = i

\* what one session operation does to the log
LogStep ==
  \/ /\ steps' = steps
     /\ (last'.op \in SessionOps => last'.raised)
  \/ /\ last'.op \in SessionOps
     /\ ~last'.raised
     /\ Len(steps') = Len(steps) + 1
     /\ SubSeq(steps', 1, Len(steps)) = steps
     /\ steps'[Len(steps')].step_number = Len(steps) + 1

\* C1: after any sequence of session operations, succeeding or raising,
\* steps[i].step_number = i at every position i, and every successful
\* operation appends exactly one step and leaves the earlier steps as they were
C1_StepNumbering == []StepNumbersMatchPositions /\ [][LogStep]_vars

\* two steps of different operations are in the log, numbered 1 and 2
C1_Witness ==
  /\ Len(steps) = 2
  /\ steps[1].kind = "sanity"
  /\ steps[2].kind = "query"
  /\ steps[2].step_number = 2

\* C2: when the store rejects the query of a step, add_step raises to its
\* caller, appends no step and leaves the log as it was
C2_RejectedQueryPropagates ==
  [][(last'.op = "add_step"
      /\ Rejects(last'.arg.query, "main", Store(last'.arg.fail, {})))
     => (last'.raised /\ last'.error = "QueryError" /\ steps' = steps)]_vars

\* a connected session with a step in its log has had a query rejected
C2_Witness ==
  /\ connected
  /\ Len(steps) = 1
  /\ last.op = "add_step"
  /\ last.raised
  /\ "main" \in last.arg.fail

(***************************************************************************)
(* Properties of the sanity checks (specification SpecSanity).             *)
(***************************************************************************)
\* the report run_sanity_checks would return were no check to fail now
Undisturbed(table_name) == run_sanity_checks(table_name, rules, Store({}, {}))

UsableDateRules(rs) == Cardinality({j \in 1..Len(rs) : DateRuleUsable(rs[j])})
UsableNumericRules(rs) == Cardinality({j \in 1..Len(rs) : NumericRuleUsable(rs[j])})
UsableEnumRules(rs, i) == Cardinality({j \in 1..i : EnumRuleUsable(rs[j])})

\* where in its category the record of check id stands, 0 when the rules
\* configure no such check
RecordPosition(id, table_rules) ==
  CASE id.cat = "null" ->
         IF id.i <= Len(table_rules.critical_columns) THEN id.i ELSE 0
    [] id.cat = "bk" ->
         IF id.i <= Len(table_rules.business_keys) THEN id.i + 1 ELSE 0
    [] id.cat = "enum" ->
         IF id.i <= Len(table_rules.categorical_columns)
            /\ EnumRuleUsable(table_rules.categorical_columns[id.i])
         THEN UsableDateRules(table_rules.date_ranges)
              + UsableNumericRules(table_rules.numeric_ranges)
              + UsableEnumRules(table_rules.categorical_columns, id.i)
         ELSE 0
    [] OTHER -> 0

CategoryOf(id) ==
  CASE id.cat = "null" -> "null_checks"
    [] id.cat = "bk" -> "duplicate_checks"
    [] OTHER -> "consistency_checks"

CategorySet == {Categories[i] : i \in 1..Len(Categories)}

\* the positions of category cat whose check fails in the store
FailedPositions(cat, failchecks, table_rules) ==
  {RecordPosition(id, table_rules) : id \in {f \in failchecks : CategoryOf(f) = cat}} \ {0}

FailuresStayLocal(report, base, failchecks, table_rules) ==
  \A cat \in CategorySet :
    /\ Len(report[cat]) = Len(base[cat])
    /\ \A i \in 1..Len(report[cat]) :
         IF i \in FailedPositions(cat, failchecks, table_rules)
         THEN /\ report[cat][i].status = "error"
              /\ report[cat][i].check_name = base[cat][i].check_name
         ELSE report[cat][i] = base[cat][i]

\* C3: whatever the rule set and whichever checks fail in the store,
\* run_sanity_checks does not raise; each failing check yields one record
\* with status error in its own category, every other check yields the
\* record it yields when nothing fails, and each category has as many
\* records as when nothing fails
C3_FailingChecksStayLocal ==
  last.op = "run_sanity_checks" =>
    /\ ~last.raised
    /\ FailuresStayLocal(last.ret, Undisturbed(last.arg.table_name),
                         last.arg.failchecks,
                         TableRules(rules, last.arg.table_name))

\* two checks of different categories failed in the store, a third check of
\* the run passed
C3_Witness ==
  /\ last.op = "run_sanity_checks"
  /\ last.arg.failchecks = {[cat |-> "null", i |-> 1], [cat |-> "enum", i |-> 2]}
  /\ Len(last.ret.consistency_checks) >= 2
  /\ Undisturbed(last.arg.table_name).null_checks[1].status # "error"
  /\ last.ret.null_checks[1].status = "error"
  /\ \E i \in 1..Len(last.ret.completeness_checks) :
       last.ret.completeness_checks[i].status = "passed"

AllRecords(report) ==
  report.null_checks \o report.duplicate_checks \o report.consistency_checks
  \o report.completeness_checks

SummaryAddsUp(report) ==
  /\ report.summary.total_checks = Len(AllRecords(report))
  /\ report.summary.passed + report.summary.warnings + report.summary.errors
       = report.summary.total_checks
  /\ report.summary.errors >=
       Len(SelectSeq(AllRecords(report), LAMBDA c : c.status = "error"))

\* C4: in every report of run_sanity_checks, summary.total_checks is the
\* number of records of the four lists, and passed + warnings + errors is
\* total_checks, the records with status error being counted under errors
C4_SummaryAddsUp ==
  \A i \in 1..Len(check_results) : SummaryAddsUp(check_results[i])

\* a report holds a passed record, a failed one counted as a warning, a
\* failed one counted as an error and a record with status error
C4_Witness ==
  \E i \in 1..Len(check_results) :
    LET report == check_results[i]
    IN  /\ report.summary.passed > 0
        /\ report.summary.warnings > 0
        /\ \E k \in 1..Len(AllRecords(report)) :
             AllRecords(report)[k].status = "failed"
             /\ AllRecords(report)[k].severity = "error"
        /\ \E k \in 1..Len(AllRecords(report)) : AllRecords(report)[k].status = "error"

(***************************************************************************)
(* Properties of validate_aggregation (specification SpecValidate).        *)
(***************************************************************************)
\* what a caller sees of a validation: whether it raised, and the raw-data
\* queries of the cases it returned
RawQueries(outcome) ==
  [raised |-> outcome.raised,
   queries |-> IF outcome.raised THEN <<>>
               ELSE [i \in 1..Len(outcome.cases) |-> outcome.cases[i].raw_data_query]]

\* the queries of the catalogue with another text than `text` that return
\* the very rows `text` returns (such a query carries the same labels)
SameRowsOtherText(text, st) ==
  {q \in CatalogueByName[st.xname] :
     /\ q.text # text
     /\ q.kind = "agg"
     /\ q.label = Meaning(text, st.xname).label
     /\ q.by = Meaning(text, st.xname).by
     /\ StoreFrame(q.text, st) = StoreFrame(text, st)}

\* C5: the raw-data query of every validation case is built from the values
\* of the sampled row's segment columns and the table name alone: two
\* aggregation queries of different text that return the same rows yield
\* the same raw-data queries
C5_RawFilterIgnoresQueryText ==
  last.op = "validate_aggregation" =>
    \A q \in SameRowsOtherText(last.arg.query, Store(last.arg.fail, {})) :
      RawQueries(validate_aggregation(q.text, last.arg.aggregation_column,
                                      last.arg.segment_columns, last.arg.table_name,
                                      last.arg.num_cases, Store(last.arg.fail, {}),
                                      last.arg.keep))
      = RawQueries([raised |-> last.raised, cases |-> last.ret])

\* a validation returned a case, and a query of another text returns the
\* same rows
C5_Witness ==
  /\ last.op = "validate_aggregation"
  /\ ~last.raised
  /\ Len(last.ret) > 0
  /\ SameRowsOtherText(last.arg.query, Store(last.arg.fail, {})) # {}

\* the rows of t in the segment of key, and those the query's WHERE keeps
Population(key) == GroupBag(ExplicitRows(rows), bulk[TName], key, "all")
Aggregated(key, q) == GroupBag(ExplicitRows(rows), bulk[TName], key, q.where)

\* the cases a caller gets: none when the call raised
Returned == IF last.raised THEN <<>> ELSE last.ret

\* C6: for every sampled segment of at most 100 rows whose reported
\* aggregate (COUNT(*), SUM(col) or AVG(col), under the label the store or
\* the caller gives it) is the aggregate of the whole segment, validation
\* records a case with passed = true
C6_CorrectAggregatePasses ==
  last.op = "validate_aggregation" =>
    LET q == Meaning(last.arg.query, xname)
        sampled == FrameHead(StoreFrame(last.arg.query, Store({}, {})).rows,
                             last.arg.num_cases)
    IN  q.label # kwMrr =>
          \A i \in 1..Len(sampled) :
            (/\ BagLen(Population(sampled[i][GCol])) <= 100
             /\ Aggregated(sampled[i][GCol], q) = Population(sampled[i][GCol]))
            => (i <= Len(Returned) /\ Returned[i].passed = "True")

(***************************************************************************)
(* Properties of validated steps (specification Spec).                     *)
(***************************************************************************)
FullyPassed(validation_results) ==
  /\ validation_results.present
  /\ \A k \in 1..Len(validation_results.cases) :
       validation_results.cases[k].passed = "True"

\* C7: the digest reports validation_passed = true for a step, and the step
\* holds all_passed = true, only if validation ran for it and every one of
\* its cases has passed = true
C7_PassedOnlyIfEveryCasePassed ==
  \A i \in 1..Len(steps) :
    /\ get_analysis_summary(steps).steps[i].validation_passed = "True"
         => FullyPassed(steps[i].validation_results)
    /\ steps[i].validation_results.all_passed
         => FullyPassed(steps[i].validation_results)

\* the validation add_step runs for the last call, on the state it left
LastValidation ==
  validate_aggregation(last.arg.query, last.arg.aggregation_column,
                       last.arg.segment_columns, last.arg.table_name, DefaultNumCases,
                       Store(last.arg.fail, {}), last.arg.keep)

Mismatched(cases) == \E k \in 1..Len(cases) : cases[k].passed = "False"

\* a further add_step of a query the store accepts, on the current state
FurtherStep ==
  add_step(CountByG.text, FALSE, <<>>, <<>>, <<>>, <<TName>>, 1, {}, steps,
           table_metadata, Store({}, {}))

\* C8: when the recomputed aggregate of a case differs from the reported
\* one, the case is kept with passed = false, add_step does not raise, the
\* step is appended with its validation results, and a later add_step runs
\* as usual
C8_MismatchIsNotFatal ==
  (/\ last.op = "add_step"
   /\ last.arg.validate
   /\ ~Rejects(last.arg.query, "main", Store(last.arg.fail, {}))
   /\ ~LastValidation.raised
   /\ Mismatched(LastValidation.cases))
  => /\ ~last.raised
     /\ Len(steps) > 0
     /\ steps[Len(steps)] = last.ret.step
     /\ steps[Len(steps)].validation_results.present
     /\ Mismatched(steps[Len(steps)].validation_results.cases)
     /\ ~steps[Len(steps)].validation_results.all_passed
     /\ ~FurtherStep.raised
     /\ FurtherStep.log = Append(steps, FurtherStep.step)

\* a step whose validation found a mismatch is followed by another step
C8_Witness ==
  /\ Len(steps) = 2
  /\ steps[1].validation_results.present
  /\ Mismatched(steps[1].validation_results.cases)
  /\ steps[2].kind = "query"
  /\ last.op = "add_step"
  /\ ~last.raised

(***************************************************************************)
(* Properties of the metadata cache and the performance advisor            *)
(* (specification SpecCache).                                              *)
(***************************************************************************)
CachedEntriesStay ==
  \A t \in DOMAIN table_metadata :
    t \in DOMAIN table_metadata' /\ table_metadata'[t] = table_metadata[t]

CachedLookupAsksNothing ==
  (last'.op = "get_table_metadata" /\ last'.arg.table_name \in DOMAIN table_metadata)
  => (last'.ret = table_metadata[last'.arg.table_name] /\ last'.queries = 0)

\* C9: once get_table_metadata has fetched the entry of a table, every
\* later get_table_metadata of that table returns this entry without asking
\* the store, and no operation changes or removes a cached entry, even when
\* the table's row count changes in the store
C9_CacheIsImmutable == [][CachedEntriesStay /\ CachedLookupAsksNothing]_vars

\* a lookup was answered from the cache after the table grew in the store
C9_Witness ==
  /\ last.op = "get_table_metadata"
  /\ last.arg.table_name = EvName
  /\ last.queries = 0
  /\ EvName \in DOMAIN table_metadata
  /\ last.ret = table_metadata[EvName]
  /\ table_metadata[EvName].row_count.n # bulk[EvName]

SizeWarnings(warnings, table) ==
  {i \in 1..Len(warnings) :
     warnings[i].kind \in {"large_table", "medium_table"} /\ warnings[i].table = table}

ThresholdsAreStrict(ret, table, row_count) ==
  /\ row_count > 1000000
       => /\ ret.estimated_cost = "high"
          /\ \E i \in SizeWarnings(ret.warnings, table) :
               ret.warnings[i].kind = "large_table"
  /\ (100000 < row_count /\ row_count <= 1000000)
       => /\ ret.estimated_cost = "medium"
          /\ \E i \in SizeWarnings(ret.warnings, table) :
               ret.warnings[i].kind = "medium_table"
  /\ row_count <= 100000
       => /\ ret.estimated_cost = "low"
          /\ SizeWarnings(ret.warnings, table) = {}

\* C10: for a query of one table, check_performance classifies by the
\* table's row_count: above 1,000,000 the cost is high with a large-table
\* warning, above 100,000 and up to 1,000,000 it is medium with a filtering
\* suggestion, up to 100,000 it is low without a size warning
C10_StrictThresholds ==
  (/\ last.op = "check_performance"
   /\ Len(last.arg.tables) = 1
   /\ last.arg.tables[1] \in DOMAIN table_metadata)
  => ThresholdsAreStrict(last.ret, last.arg.tables[1],
                         table_metadata[last.arg.tables[1]].row_count.n)

\* a table of exactly 1,000,000 rows was classified medium
C10_Witness ==
  /\ last.op = "check_performance"
  /\ last.arg.tables = <<EvName>>
  /\ EvName \in DOMAIN table_metadata
  /\ table_metadata[EvName].row_count.n = 1000000
  /\ last.ret.estimated_cost = "medium"

(***************************************************************************)
(* Properties of the date-filter advice (specification SpecCache).         *)
(***************************************************************************)
\* the query text contains one of the date keywords, as written
MentionsDateKeyword(query) ==
  \E i \in 1..Len(DateKeywords) : Contains(query, DateKeywords[i])

DateFilterWarnings(warnings, table) ==
  {i \in 1..Len(warnings) :
     warnings[i].kind = "add_date_filter" /\ warnings[i].table = table}

\* C11: for each referenced table that has a column named created_at,
\* occurred_at or timestamp, check_performance emits the add-a-date-filter
\* message for that table exactly when the query text contains none of
\* those keywords
C11_DateFilterAdvice ==
  last.op = "check_performance" =>
    \A k \in 1..Len(last.arg.tables) :
      LET table == last.arg.tables[k]
      IN  (table \in DOMAIN table_metadata /\ HasDateColumn(table_metadata[table]))
          => (DateFilterWarnings(last.ret.warnings, table) # {}
              <=> ~MentionsDateKeyword(last.arg.query))

(***************************************************************************)
(* Specification SpecQuery: execute_query called directly, with and        *)
(* without a plan, while the store refuses the plan query, the primary     *)
(* query, both or neither.                                                 *)
(***************************************************************************)
\* a direct call of execute_query(query, explain)
ExecuteQuery(query, explain, fail, et) ==
  /\ \E r \in {execute_query(query, explain, "main", et, Store(fail, {}))} :
         last' = Call("execute_query", r.raised, IF r.raised THEN "QueryError" ELSE "",
                      0, [query |-> query, explain |-> explain, fail |-> fail, et |-> et],
                      [df |-> r.df, metadata |-> r.metadata])
  /\ UNCHANGED <<rows, bulk, xname, connected, steps, table_metadata, rules, check_results>>

InitQuery ==
  /\ rows = <<>>
  /\ bulk = [t \in Tables |-> IF t = TName THEN 0 ELSE MediumTableRows]
  /\ xname = XPlain
  /\ connected = FALSE
  /\ steps = <<>>
  /\ table_metadata = [t \in {} |-> MetaError]
  /\ last = NoCall
  /\ rules = SessionRules
  /\ check_results = <<>>

QueryCall ==
  \E q \in {CountByG, AliasedSumByG, BadQuery}, explain \in BOOLEAN,
     fail \in SUBSET {"explain", "main"}, et \in 0..MaxExecTime :
    ExecuteQuery(q.text, explain, fail, et)

QueryInsert == \E i \in 1..Len(RowVals) : StoreInsert(TName, i)

NextQuery ==
  \/ Connect
  \/ QueryCall
  \/ QueryInsert

SpecQuery == InitQuery /\ [][NextQuery]_vars

(***************************************************************************)
(* Properties of execute_query (specification SpecQuery).                  *)
(***************************************************************************)
\* the store refused the plan of the last call, and would accept its
\* primary query
PlanRefused ==
  /\ last.op = "execute_query"
  /\ last.arg.explain
  /\ "explain" \in last.arg.fail
  /\ ~Rejects(last.arg.query, "main", Store(last.arg.fail, {}))

\* the rows and the measurements of the primary query
PrimaryAnswer(ret, query, et) ==
  LET result_df == StoreFrame(query, Store({}, {}))
  IN  /\ ret.df = result_df
      /\ ret.metadata.execution_time = et
      /\ ret.metadata.row_count = Len(result_df.rows)
      /\ ret.metadata.columns = result_df.columns

\* C12, as the code has it: when the plan query fails, execute_query does
\* not raise, runs the primary query and returns its rows with
\* execution_time, row_count and columns; the plan field of the metadata is
\* present and empty
C12_PlanFailureSwallowed ==
  PlanRefused =>
    /\ ~last.raised
    /\ PrimaryAnswer(last.ret, last.arg.query, last.arg.et)
    /\ "explain_plan" \in DOMAIN last.ret.metadata
    /\ last.ret.metadata.explain_plan = "empty"

\* C12, as stated: the same, with the plan field left out of the metadata
C12_PlanFieldOmitted ==
  PlanRefused =>
    /\ ~last.raised
    /\ PrimaryAnswer(last.ret, last.arg.query, last.arg.et)
    /\ "explain_plan" \notin DOMAIN last.ret.metadata

\* the plan was refused and the primary query returned two segments
C12_Witness ==
  /\ PlanRefused
  /\ ~last.raised
  /\ last.ret.metadata.row_count = 2
  /\ last.ret.metadata.explain_plan = "empty"

(***************************************************************************)
(* Properties of the degraded rule set (specification SpecSanity).         *)
(***************************************************************************)
\* the rules in use are those a missing rule document gives
RulesDegraded == rules = load_rules([kind |-> "missing", content |-> EmptyRules])

\* C13: when the rule document is missing or cannot be parsed,
\* run_sanity_checks of any table does not raise and returns a report of
\* zero checks: the four category lists are empty and total_checks is 0
C13_MissingRulesGiveNoChecks ==
  (RulesDegraded /\ last.op = "run_sanity_checks") =>
    /\ ~last.raised
    /\ \A cat \in CategorySet : last.ret[cat] = <<>>
    /\ last.ret.summary.total_checks = 0

(***************************************************************************)
(* Properties of the single checks (specification SpecSanity).             *)
(***************************************************************************)
\* the rows of table t, counted from the table itself
TotalRows == Len(rows) + bulk[TName]
RowsWithNull(col) ==
  Cardinality({i \in 1..Len(rows) : ~NotNa(RowCell(RowVals[rows[i]], col, xname))})
  + (IF NotNa(RowCell(BulkRow, col, xname)) THEN 0 ELSE bulk[TName])

\* the last call ran the checks of table t and the store refused none
RanUndisturbed ==
  /\ last.op = "run_sanity_checks"
  /\ ~last.raised
  /\ last.arg.table_name = TName
  /\ last.arg.failchecks = {}

\* C14: for every critical column of a table, a table with no rows
\* included, the null check reports null_count = total_rows - the number of
\* non-null values, with status passed exactly when that is 0 and status
\* failed with severity error when a null exists
C14_NullCountExact ==
  (RanUndisturbed /\ rules.enabled.null_checks) =>
    LET cols == TableRules(rules, TName).critical_columns
    IN  /\ Len(last.ret.null_checks) = Len(cols)
        /\ \A i \in 1..Len(cols) :
             KnownColumn(TName, cols[i], xname) =>
               LET rec == last.ret.null_checks[i]
               IN  /\ rec.value = IntV(RowsWithNull(cols[i]))
                   /\ rec.status = "passed" <=> RowsWithNull(cols[i]) = 0
                   /\ RowsWithNull(cols[i]) > 0
                        => (rec.status = "failed" /\ rec.severity = "error")

(***************************************************************************)
(* Specification SpecComplete: run_sanity_checks on tables of 2 to 27 rows *)
(* in which up to MaxRows rows lack the required column x.                 *)
(***************************************************************************)
\* row 3 is the row without x
InitComplete ==
  /\ rows \in {<<>>, <<3>>}
  /\ bulk \in {[t \in Tables |-> IF t = TName THEN c ELSE 0] : c \in {2, 18, 19, 24}}
  /\ xname = XPlain
  /\ connected = TRUE
  /\ steps = <<>>
  /\ table_metadata = [t \in {} |-> MetaError]
  /\ last = NoCall
  /\ rules = SessionRules
  /\ check_results = <<>>

CompleteRun == RunSanityChecks(TName, {})

CompleteInsert == \E i \in {1, 3} : StoreInsert(TName, i)

NextComplete ==
  \/ CompleteRun
  \/ CompleteInsert

SpecComplete == InitComplete /\ [][NextComplete]_vars

(***************************************************************************)
(* Properties of the completeness check (specification SpecComplete).      *)
(***************************************************************************)
\* h is 100 * non_null / total in hundredths, rounded to the nearest
NearestHundredth(h, non_null, total) ==
  LET d == 10000 * non_null - h * total
  IN  2 * (IF d < 0 THEN -d ELSE d) <= total

\* the records that are not passed and carry severity warning
WarningRecords(report) ==
  {i \in 1..Len(AllRecords(report)) :
     AllRecords(report)[i].status # "passed" /\ AllRecords(report)[i].severity = "warning"}

CompletenessAsCoded(rec, non_null, total) ==
  \E h \in 0..10000 :
    /\ NearestHundredth(h, non_null, total)
    /\ rec.pct = FloatV(h, 100)
    /\ rec.status = "passed" <=> h >= 9500
    /\ rec.status # "passed" => (rec.status = "failed" /\ rec.severity = "warning")

RowsWhere(bad) ==
  Cardinality({i \in 1..Len(rows) : bad[RowVals[rows[i]]]})
  + (IF bad[BulkRow] THEN bulk[TName] ELSE 0)

\* the non-null values of a column of table t
ValuesOf(col) ==
  {RowCell(r, col, xname) :
     r \in {RowVals[rows[i]] : i \in 1..Len(rows)}
           \cup (IF bulk[TName] > 0 THEN {BulkRow} ELSE {})} \ {NoneV}

\* rules the table can answer: their columns exist and have the type the
\* rule is about
WellFormedDate(rule) ==
  /\ DateRuleUsable(rule)
  /\ KnownColumn(TName, rule.start, xname) /\ KnownColumn(TName, rule.end, xname)
  /\ ~IsTextColumn(rule.start) /\ ~IsTextColumn(rule.end)
WellFormedNumeric(rule) ==
  /\ NumericRuleUsable(rule)
  /\ KnownColumn(TName, rule.column, xname) /\ ~IsTextColumn(rule.column)
WellFormedEnum(rule) ==
  /\ EnumRuleUsable(rule)
  /\ KnownColumn(TName, rule.name, xname) /\ IsTextColumn(rule.name)

DateViolations(rule) ==
  RowsWhere([r \in AllRows |->
    /\ NotNa(RowCell(r, rule.start, xname)) /\ NotNa(RowCell(r, rule.end, xname))
    /\ RowCell(r, rule.start, xname).n > RowCell(r, rule.end, xname).n])
NumericViolations(rule) ==
  RowsWhere([r \in AllRows |->
    /\ NotNa(RowCell(r, rule.column, xname))
    /\ \/ RowCell(r, rule.column, xname).n < rule.min.n
       \/ RowCell(r, rule.column, xname).n > rule.max.n])
\* values outside the declared set, letter case apart
EnumViolations(rule) ==
  {v \in ValuesOf(rule.name) :
     Lower(v.s) \notin {Lower(rule.expected_values[k]) : k \in 1..Len(rule.expected_values)}}
\* values outside the declared set, letter case and surrounding blanks apart
EnumViolationsTrimmed(rule) ==
  {v \in ValuesOf(rule.name) :
     Strip(Lower(v.s)) \notin {Strip(Lower(rule.expected_values[k])) :
                                 k \in 1..Len(rule.expected_values)}}

\* the record is passed with severity info when there is no violation, and
\* failed with the given severity otherwise
Verdict(rec, violations, severity) ==
  /\ rec.status = "passed" <=> violations = 0
  /\ rec.status = "passed" => rec.severity = "info"
  /\ rec.status # "passed" => (rec.status = "failed" /\ rec.severity = severity)

UsableDateUpTo(rs, i) == Cardinality({j \in 1..i : DateRuleUsable(rs[j])})
UsableNumericUpTo(rs, i) == Cardinality({j \in 1..i : NumericRuleUsable(rs[j])})

DateAndNumericVerdicts(report, tr) ==
  /\ Len(report.consistency_checks)
       = UsableDateRules(tr.date_ranges) + UsableNumericRules(tr.numeric_ranges)
         + UsableEnumRules(tr.categorical_columns, Len(tr.categorical_columns))
  /\ \A i \in 1..Len(tr.date_ranges) :
       WellFormedDate(tr.date_ranges[i]) =>
         Verdict(report.consistency_checks[UsableDateUpTo(tr.date_ranges, i)],
                 DateViolations(tr.date_ranges[i]), "error")
  /\ \A i \in 1..Len(tr.numeric_ranges) :
       WellFormedNumeric(tr.numeric_ranges[i]) =>
         Verdict(report.consistency_checks[UsableDateRules(tr.date_ranges)
                                           + UsableNumericUpTo(tr.numeric_ranges, i)],
                 NumericViolations(tr.numeric_ranges[i]), "warning")

EnumRecordOf(report, tr, i) ==
  report.consistency_checks[UsableDateRules(tr.date_ranges)
                            + UsableNumericRules(tr.numeric_ranges)
                            + UsableEnumRules(tr.categorical_columns, i)]

\* C16, as the code has it: each well-formed consistency rule yields one
\* record, passed with severity info exactly when it finds no violation; a
\* date-range rule counts the rows with start > end, both non-null, and
\* fails with severity error; a numeric-range rule counts the rows with
\* value < min or value > max and fails with severity warning; a categorical
\* rule fails with severity warning when a non-null value, with letter case
\* and surrounding blanks ignored on both sides, is outside the declared set
C16_ConsistencyVerdictsTrimmed ==
  (RanUndisturbed /\ rules.enabled.consistency_checks) =>
    LET tr == TableRules(rules, TName)
    IN  /\ DateAndNumericVerdicts(last.ret, tr)
        /\ \A i \in 1..Len(tr.categorical_columns) :
             WellFormedEnum(tr.categorical_columns[i]) =>
               Verdict(EnumRecordOf(last.ret, tr, i),
                       Cardinality(EnumViolationsTrimmed(tr.categorical_columns[i])),
                       "warning")

\* C16, as stated: the same, the categorical values compared with letter
\* case ignored and nothing else
C16_ConsistencyVerdicts ==
  (RanUndisturbed /\ rules.enabled.consistency_checks) =>
    LET tr == TableRules(rules, TName)
    IN  /\ DateAndNumericVerdicts(last.ret, tr)
        /\ \A i \in 1..Len(tr.categorical_columns) :
             WellFormedEnum(tr.categorical_columns[i]) =>
               Verdict(EnumRecordOf(last.ret, tr, i),
                       Cardinality(EnumViolations(tr.categorical_columns[i])),
                       "warning")

\* one run found a numeric value below its minimum and a category outside
\* the declared set, and passed a date range and a category declared in
\* another letter case
C16_Witness ==
  /\ RanUndisturbed
  /\ TableRules(rules, TName) = OddTableRules
  /\ Len(last.ret.consistency_checks) = 6
  /\ last.ret.consistency_checks[1].status = "passed"
  /\ last.ret.consistency_checks[3].status = "failed"
  /\ last.ret.consistency_checks[3].severity = "warning"
  /\ last.ret.consistency_checks[5].status = "passed"
  /\ last.ret.consistency_checks[6].status = "failed"
  /\ last.ret.consistency_checks[6].severity = "warning"

(***************************************************************************)
(* Idempotence of run_sanity_checks (specification SpecSanity).            *)
(***************************************************************************)
\* the check records and the summary counts of a report
Findings(report) ==
  [null_checks |-> report.null_checks,
   duplicate_checks |-> report.duplicate_checks,
   consistency_checks |-> report.consistency_checks,
   completeness_checks |-> report.completeness_checks,
   summary |-> report.summary]

\* a run directly after a run of the same table, the table, the rules and
\* the store's answers unchanged between them
RunRepeated ==
  /\ last.op = "run_sanity_checks"
  /\ ~last.raised
  /\ last'.op = "run_sanity_checks"
  /\ last'.arg = last.arg
  /\ rows' = rows /\ bulk' = bulk /\ rules' = rules

PlanCol == "plan"
PaidCol == "paid"
PriceCol == "monthly_price"
RegionCol == "region"
DiagColumns == {PlanCol, PaidCol, PriceCol}
NoSegment == "None"

\* df[col] of the rows of a run
SegmentCell(run, col) ==
  IF col = PlanCol THEN run.plan
  ELSE IF run.plan = NoSegment THEN NoSegment
  ELSE IF run.plan = "free" THEN "no" ELSE "yes"

\* df[segment_column].dropna().unique(): in order of first appearance
RECURSIVE unique_segments(_, _, _)
unique_segments(df, col, seen) ==
  IF Len(df) = 0 THEN seen
  ELSE unique_segments(Tail(df), col,
         IF SegmentCell(Head(df), col) = NoSegment
            \/ SegmentCell(Head(df), col) \in SeqToSet(seen)
         THEN seen ELSE Append(seen, SegmentCell(Head(df), col)))

\* df[df[segment_column] == segment][metric_column].dropna(): its length, its
\* sum and the sum of its squares
RECURSIVE segment_data(_, _, _)
segment_data(df, col, segment) ==
  IF Len(df) = 0 THEN [len |-> 0, sum |-> 0, squares |-> 0]
  ELSE The({ IF SegmentCell(Head(df), col) = segment /\ NotNa(Head(df).price)
             THEN [len |-> rest.len + Head(df).n,
                   sum |-> rest.sum + Head(df).n * Head(df).price.n,
                   squares |-> rest.squares
                               + Head(df).n * Head(df).price.n * Head(df).price.n]
             ELSE rest :
             rest \in {segment_data(Tail(df), col, segment)} })

\* 100 times the square of the two-sided 5 per cent point of Student's t,
\* by degrees of freedom
TCriticalSquared == <<16145, 1851, 1013, 771, 661, 599, 559, 532, 512, 496, 485, 475, 467, 460>>

\* scipy.stats.ttest_ind(a, b): what is known of the p-value.  A sample of
\* one value has no variance and gives nan; two samples without spread give
\* p = 0 when their means differ and nan when they do not
ttest_ind(a, b) ==
  IF a.len < 2 \/ b.len < 2 THEN "nan"
  ELSE The({ IF spread = 0 THEN (IF gap = 0 THEN "nan" ELSE "below")
             ELSE IF 100 * gap * gap * (a.len + b.len - 2)
                     > TCriticalSquared[a.len + b.len - 2] * spread * (a.len + b.len)
             THEN "below" ELSE "atleast" :
             gap \in {a.sum * b.len - b.sum * a.len},
             spread \in {(a.len * a.squares - a.sum * a.sum) * b.len
                         + (b.len * b.squares - b.sum * b.sum) * a.len} })

\* the percentage is taken of the first segment's mean
ComparisonEntryOfFirstMean(seg1, seg2, a, b) ==
  [seg1 |-> seg1, seg2 |-> seg2,
   mean_diff |-> FloatV(a.sum * b.len - b.sum * a.len, a.len * b.len),
   mean_diff_pct |-> IF a.sum # 0
                     THEN FloatV(100 * (a.sum * b.len - b.sum * a.len), b.len * a.sum)
                     ELSE FloatV(0, 1),
   p_value |-> ttest_ind(a, b),
   significant |-> ttest_ind(a, b) = "below"]

\* one entry of comparison['comparisons'], kept under the key seg1_vs_seg2
ComparisonEntry(seg1, seg2, a, b) ==
  [seg1 |-> seg1, seg2 |-> seg2,
   mean_diff |-> FloatV(a.sum * b.len - b.sum * a.len, a.len * b.len),
   mean_diff_pct |-> IF b.sum # 0
                     THEN FloatV(100 * (a.sum * b.len - b.sum * a.len), a.len * b.sum)
                     ELSE FloatV(0, 1),
   p_value |-> ttest_ind(a, b),
   significant |-> ttest_ind(a, b) = "below"]

\* the body of the inner loop: if len(seg1_data) > 0 and len(seg2_data) > 0
PairCompared(df, col, seg1, seg2) ==
  The({ IF a.len > 0 /\ b.len > 0 THEN <<ComparisonEntry(seg1, seg2, a, b)>> ELSE <<>> :
        a \in {segment_data(df, col, seg1)}, b \in {segment_data(df, col, seg2)} })

\* for seg2 in segments_list[i+1:]
RECURSIVE CompareWithLater(_, _, _, _)
CompareWithLater(df, col, seg1, later) ==
  IF Len(later) = 0 THEN <<>>
  ELSE PairCompared(df, col, seg1, Head(later))
       \o CompareWithLater(df, col, seg1, Tail(later))

\* for i, seg1 in enumerate(segments_list)
RECURSIVE ComparePairwise(_, _, _)
ComparePairwise(df, col, segments_list) ==
  IF Len(segments_list) = 0 THEN <<>>
  ELSE CompareWithLater(df, col, Head(segments_list), Tail(segments_list))
       \o ComparePairwise(df, col, Tail(segments_list))

\* comparison['segment_stats']: the segments with an observation, in order
RECURSIVE SegmentStats(_, _, _)
SegmentStats(df, col, segments) ==
  IF Len(segments) = 0 THEN <<>>
  ELSE The({ (IF a.len > 0
              THEN <<[segment |-> Head(segments), count |-> a.len,
                      mean |-> FloatV(a.sum, a.len)]>>
              ELSE <<>>) \o SegmentStats(df, col, Tail(segments)) :
             a \in {segment_data(df, col, Head(segments))} })

NoComparison ==
  [error |-> TRUE, segments_compared |-> <<>>, segment_stats |-> <<>>, comparisons |-> <<>>]

compare_segments(df, segment_column, metric_column) ==
  IF segment_column \notin DiagColumns \/ metric_column \notin DiagColumns
  THEN NoComparison
  ELSE The({ [error |-> FALSE, segments_compared |-> segs,
              segment_stats |-> SegmentStats(df, segment_column, segs),
              comparisons |-> ComparePairwise(df, segment_column, segs)] :
             segs \in {unique_segments(df, segment_column, <<>>)} })

\* a < b for two fractions with positive denominators
Below(a, b) == a.n * b.d < b.n * a.d

\* max(means, key=means.get): the first segment with the highest mean
RECURSIVE BestSegment(_, _)
BestSegment(segment_stats, best) ==
  IF Len(segment_stats) = 0 THEN best
  ELSE BestSegment(Tail(segment_stats),
                   IF Below(best.mean, Head(segment_stats).mean)
                   THEN Head(segment_stats) ELSE best)

\* min(means, key=means.get): the first segment with the lowest mean
RECURSIVE WorstSegment(_, _)
WorstSegment(segment_stats, worst) ==
  IF Len(segment_stats) = 0 THEN worst
  ELSE WorstSegment(Tail(segment_stats),
                    IF Below(Head(segment_stats).mean, worst.mean)
                    THEN Head(segment_stats) ELSE worst)

PerformanceGap(best, worst) ==
  [type |-> "performance_gap", best_segment |-> best.segment,
   worst_segment |-> worst.segment,
   difference_pct |-> IF worst.mean.n # 0
                      THEN FloatV(100 * (best.mean.n * worst.mean.d
                                         - worst.mean.n * best.mean.d),
                                  best.mean.d * worst.mean.n)
                      ELSE FloatV(0, 1),
   seg1 |-> "", seg2 |-> "", p_value |-> "",
   segment_column |-> ""]

SignificantDifference(entry) ==
  [type |-> "significant_difference", best_segment |-> "", worst_segment |-> "",
   difference_pct |-> FloatV(0, 1),
   seg1 |-> entry.seg1, seg2 |-> entry.seg2, p_value |-> entry.p_value,
   segment_column |-> ""]

\* for comp_name, comp_data in comparisons.items(): if comp_data.get('significant')
RECURSIVE SignificantDifferences(_)
SignificantDifferences(comparisons) ==
  IF Len(comparisons) = 0 THEN <<>>
  ELSE (IF Head(comparisons).significant
        THEN <<SignificantDifference(Head(comparisons))>> ELSE <<>>)
       \o SignificantDifferences(Tail(comparisons))

\* an insight is raised for every comparison, significant or not
generate_insights_for_every_pair(comparison, segment_column) ==
  IF Len(comparison.segment_stats) < 2 THEN <<>>
  ELSE [i \in 1..(1 + Len(comparison.comparisons)) |->
          [(<<PerformanceGap(BestSegment(comparison.segment_stats,
                                         Head(comparison.segment_stats)),
                             WorstSegment(comparison.segment_stats,
                                          Head(comparison.segment_stats)))>>
            \o [k \in 1..Len(comparison.comparisons) |->
                  SignificantDifference(comparison.comparisons[k])])[i]
           EXCEPT !.segment_column = segment_column]]

\* DiagnosticAnalyzer._generate_insights.  The field segment_column of an
\* insight is not in the code's dict: it records which call produced it
generate_insights(comparison, segment_column) ==
  IF Len(comparison.segment_stats) < 2 THEN <<>>
  ELSE The({ [i \in 1..Len(found) |-> [found[i] EXCEPT !.segment_column = segment_column]] :
             found \in {<<PerformanceGap(BestSegment(comparison.segment_stats,
                                                     Head(comparison.segment_stats)),
                                         WorstSegment(comparison.segment_stats,
                                                      Head(comparison.segment_stats)))>>
                        \o SignificantDifferences(comparison.comparisons)} })

\* diagnostics['segment_comparisons'][seg_col] = comparison: a key already
\* in the mapping keeps its place and takes the new value
SetComparison(segment_comparisons, seg_col, comparison) ==
  IF \E i \in 1..Len(segment_comparisons) : segment_comparisons[i].segment_column = seg_col
  THEN [i \in 1..Len(segment_comparisons) |->
          IF segment_comparisons[i].segment_column = seg_col
          THEN [segment_column |-> seg_col, comparison |-> comparison]
          ELSE segment_comparisons[i]]
  ELSE Append(segment_comparisons, [segment_column |-> seg_col, comparison |-> comparison])

\* DiagnosticAnalyzer.diagnostic_analysis: the loop over segment_columns
RECURSIVE DiagnosticLoop(_, _, _, _)
DiagnosticLoop(df, target_column, segment_columns, diagnostics) ==
  IF Len(segment_columns) = 0 THEN diagnostics
  ELSE IF Head(segment_columns) \notin DiagColumns
  THEN DiagnosticLoop(df, target_column, Tail(segment_columns), diagnostics)
  ELSE The({ DiagnosticLoop(df, target_column, Tail(segment_columns),
               [diagnostics EXCEPT
                  !.segment_comparisons = SetComparison(@, Head(segment_columns), comparison),
                  !.insights = @ \o generate_insights(comparison, Head(segment_columns))]) :
             comparison \in {compare_segments(df, Head(segment_columns), target_column)} })

diagnostic_analysis(df, target_column, segment_columns) ==
  DiagnosticLoop(df, target_column, segment_columns,
                 [target_column |-> target_column, segment_columns |-> segment_columns,
                  segment_comparisons |-> <<>>, insights |-> <<>>])

(***************************************************************************)
(* Specification SpecDiagnostic: compare_segments and diagnostic_analysis  *)
(* called once on every frame of at most MaxRuns runs.                     *)
(***************************************************************************)
MaxRuns == 3

Run(plan, price, n) == [plan |-> plan, price |-> price, n |-> n]

\* three rows of free at 10 and of pro at 20, single rows, a plan at price
\* 0, a plan without price, a row without plan
DiagRuns ==
  {Run("free", IntV(10), 3), Run("pro", IntV(20), 3),
   Run("free", IntV(10), 1), Run("free", IntV(20), 1),
   Run("team", IntV(0), 2), Run("team", NoneV, 1),
   Run(NoSegment, IntV(10), 1)}

Frames == UNION {[1..k -> DiagRuns] : k \in 0..MaxRuns}

\* a direct call of compare_segments(df, segment_column, metric_column)
CompareSegments(df, segment_column, metric_column) ==
  /\ last.op = "none"
  /\ last' = Call("compare_segments", FALSE, "", 0,
                  [df |-> df, segment_column |-> segment_column,
                   metric_column |-> metric_column],
                  compare_segments(df, segment_column, metric_column))
  /\ UNCHANGED <<rows, bulk, xname, connected, steps, table_metadata, rules, check_results>>

\* a direct call of diagnostic_analysis(df, target_column, segment_columns)
DiagnosticAnalysis(df, target_column, segment_columns) ==
  /\ last.op = "none"
  /\ last' = Call("diagnostic_analysis", FALSE, "", 0,
                  [df |-> df, target_column |-> target_column,
                   segment_columns |-> segment_columns],
                  diagnostic_analysis(df, target_column, segment_columns))
  /\ UNCHANGED <<rows, bulk, xname, connected, steps, table_metadata, rules, check_results>>

InitDiagnostic ==
  /\ rows = <<>>
  /\ bulk = [t \in Tables |-> 0]
  /\ xname = XPlain
  /\ connected = FALSE
  /\ steps = <<>>
  /\ table_metadata = [t \in {} |-> MetaError]
  /\ last = NoCall
  /\ rules = SessionRules
  /\ check_results = <<>>

DiagnosticCompare ==
  \E df \in Frames, segment_column \in {PlanCol, RegionCol} :
    CompareSegments(df, segment_column, PriceCol)

DiagnosticAnalyse ==
  \E df \in Frames,
     segment_columns \in {<<PlanCol, PaidCol>>, <<RegionCol, PaidCol>>, <<PlanCol, PlanCol>>} :
    DiagnosticAnalysis(df, PriceCol, segment_columns)

NextDiagnostic ==
  \/ DiagnosticCompare
  \/ DiagnosticAnalyse

SpecDiagnostic == InitDiagnostic /\ [][NextDiagnostic]_vars

(***************************************************************************)
(* Properties of the segment comparison (specification SpecDiagnostic).    *)
(***************************************************************************)
\* the non-null observations of the metric in a segment: how many, and
\* their total
RECURSIVE Observations(_, _, _)
Observations(df, col, segment) ==
  IF Len(df) = 0 THEN 0
  ELSE Observations(Tail(df), col, segment)
       + (IF SegmentCell(Head(df), col) = segment /\ Head(df).price # NoneV
          THEN Head(df).n ELSE 0)

RECURSIVE Total(_, _, _)
Total(df, col, segment) ==
  IF Len(df) = 0 THEN 0
  ELSE Total(Tail(df), col, segment)
       + (IF SegmentCell(Head(df), col) = segment /\ Head(df).price # NoneV
          THEN Head(df).n * Head(df).price.n ELSE 0)

SegmentsOf(df, col) == {SegmentCell(df[i], col) : i \in 1..Len(df)} \ {NoSegment}

Compared ==
  /\ last.op = "compare_segments"
  /\ ~last.ret.error

\* C18: compare_segments reports a comparison only for pairs in which both
\* segments have at least 2 non-null observations of the metric
C18_PairsNeedTwoObservations ==
  Compared =>
    \A i \in 1..Len(last.ret.comparisons) :
      /\ Observations(last.arg.df, last.arg.segment_column,
                      last.ret.comparisons[i].seg1) >= 2
      /\ Observations(last.arg.df, last.arg.segment_column,
                      last.ret.comparisons[i].seg2) >= 2

\* the mean of a segment with observations, as a fraction
MeanOf(df, col, segment) ==
  FloatV(Total(df, col, segment), Observations(df, col, segment))

\* x - y, and x / y * 100 guarded against y = 0, for fractions
Difference(x, y) == FloatV(x.n * y.d - y.n * x.d, x.d * y.d)
PercentOf(x, y) == IF y.n = 0 THEN FloatV(0, 1) ELSE FloatV(100 * x.n * y.d, x.d * y.n)

\* the positions of the entries of a result that compare seg1 with seg2
EntriesFor(comparisons, seg1, seg2) ==
  {i \in 1..Len(comparisons) : comparisons[i].seg1 = seg1 /\ comparisons[i].seg2 = seg2}

\* the frame of the example: 3 rows of free at 10, 3 rows of pro at 20
FreeAndPro == <<Run("free", IntV(10), 3), Run("pro", IntV(20), 3)>>

\* C19: in a result of compare_segments no entry compares a segment with
\* itself, no pair of segments has entries in both orders or two entries in
\* one order, every pair of segments with two observations or more each has
\* an entry, and each entry has mean_diff = mean(first) - mean(second) and
\* mean_diff_pct = mean_diff / mean(second) * 100, or 0 when mean(second) is
\* 0; for 3 rows of free at 10 and 3 rows of pro at 20 the means are 10 and
\* 20 and the one entry, free versus pro, has mean_diff -10 and
\* mean_diff_pct -50
C19_OneEntryPerPair ==
  Compared =>
    /\ \A i \in 1..Len(last.ret.comparisons) :
         /\ last.ret.comparisons[i].seg1 # last.ret.comparisons[i].seg2
         /\ EntriesFor(last.ret.comparisons, last.ret.comparisons[i].seg1,
                       last.ret.comparisons[i].seg2) = {i}
         /\ EntriesFor(last.ret.comparisons, last.ret.comparisons[i].seg2,
                       last.ret.comparisons[i].seg1) = {}
         /\ last.ret.comparisons[i].mean_diff
              = Difference(MeanOf(last.arg.df, last.arg.segment_column,
                                  last.ret.comparisons[i].seg1),
                           MeanOf(last.arg.df, last.arg.segment_column,
                                  last.ret.comparisons[i].seg2))
         /\ last.ret.comparisons[i].mean_diff_pct
              = PercentOf(last.ret.comparisons[i].mean_diff,
                          MeanOf(last.arg.df, last.arg.segment_column,
                                 last.ret.comparisons[i].seg2))
    /\ \A seg1, seg2 \in SegmentsOf(last.arg.df, last.arg.segment_column) :
         (/\ seg1 # seg2
          /\ Observations(last.arg.df, last.arg.segment_column, seg1) >= 2
          /\ Observations(last.arg.df, last.arg.segment_column, seg2) >= 2)
         => Cardinality(EntriesFor(last.ret.comparisons, seg1, seg2)
                        \cup EntriesFor(last.ret.comparisons, seg2, seg1)) = 1
    /\ last.arg.df = FreeAndPro =>
         /\ last.ret.segment_stats
              = <<[segment |-> "free", count |-> 3, mean |-> FloatV(10, 1)],
                  [segment |-> "pro", count |-> 3, mean |-> FloatV(20, 1)]>>
         /\ Len(last.ret.comparisons) = 1
         /\ last.ret.comparisons[1].seg1 = "free"
         /\ last.ret.comparisons[1].seg2 = "pro"
         /\ last.ret.comparisons[1].mean_diff = FloatV(-10, 1)
         /\ last.ret.comparisons[1].mean_diff_pct = FloatV(-50, 1)

\* the example frame has been compared and gave its one entry
C19_Witness ==
  /\ Compared
  /\ last.arg.df = FreeAndPro
  /\ Len(last.ret.comparisons) = 1
  /\ last.ret.comparisons[1].mean_diff_pct = FloatV(-50, 1)

(***************************************************************************)
(* Properties of diagnostic_analysis (specification SpecDiagnostic).       *)
(***************************************************************************)
Analysed == last.op = "diagnostic_analysis"

\* the segment columns asked for that the frame has
ColumnsPresent == {last.arg.segment_columns[k] : k \in 1..Len(last.arg.segment_columns)} \cap DiagColumns

\* how many entries of segment_columns name the column
Occurrences(col) ==
  Cardinality({k \in 1..Len(last.arg.segment_columns) : last.arg.segment_columns[k] = col})

\* the segments of a column with an observation of the target
ObservedSegments(col) ==
  {seg \in SegmentsOf(last.arg.df, col) : Observations(last.arg.df, col, seg) > 0}

GapInsights(col) ==
  {i \in 1..Len(last.ret.insights) :
     /\ last.ret.insights[i].type = "performance_gap"
     /\ last.ret.insights[i].segment_column = col}

SignificantInsights(col, seg1, seg2) ==
  {i \in 1..Len(last.ret.insights) :
     /\ last.ret.insights[i].type = "significant_difference"
     /\ last.ret.insights[i].segment_column = col
     /\ last.ret.insights[i].seg1 = seg1
     /\ last.ret.insights[i].seg2 = seg2}

\* the comparison kept for a column
ComparisonOf(col) ==
  {last.ret.segment_comparisons[i].comparison : i \in
     {k \in 1..Len(last.ret.segment_comparisons) :
        last.ret.segment_comparisons[k].segment_column = col}}

\* the gap insight names a segment of highest and a segment of lowest mean
NamesBestAndWorst(col, insight) ==
  /\ insight.best_segment \in ObservedSegments(col)
  /\ insight.worst_segment \in ObservedSegments(col)
  /\ \A seg \in ObservedSegments(col) :
       /\ ~Below(MeanOf(last.arg.df, col, insight.best_segment), MeanOf(last.arg.df, col, seg))
       /\ ~Below(MeanOf(last.arg.df, col, seg), MeanOf(last.arg.df, col, insight.worst_segment))

\* the insights about the pairwise comparisons of a column: per entry of
\* segment_columns naming it, one for each comparison with p < 0.05, none
\* for the others
SignificantInsightsRight(col, times) ==
  \A comparison \in ComparisonOf(col) :
    \A i \in 1..Len(comparison.comparisons) :
      Cardinality(SignificantInsights(col, comparison.comparisons[i].seg1,
                                      comparison.comparisons[i].seg2))
        = IF comparison.comparisons[i].p_value = "below" THEN times ELSE 0

\* every insight is a gap insight of a column present or an insight about
\* one of its comparisons
NoOtherInsight ==
  \A i \in 1..Len(last.ret.insights) :
    /\ last.ret.insights[i].segment_column \in ColumnsPresent
    /\ \/ last.ret.insights[i].type = "performance_gap"
       \/ \E comparison \in ComparisonOf(last.ret.insights[i].segment_column) :
            EntriesFor(comparison.comparisons, last.ret.insights[i].seg1,
                       last.ret.insights[i].seg2) # {}

\* one comparison is kept per column present, the one compare_segments gives
OneComparisonPerColumn ==
  /\ Len(last.ret.segment_comparisons) = Cardinality(ColumnsPresent)
  /\ \A col \in ColumnsPresent :
       ComparisonOf(col) = {compare_segments(last.arg.df, col, last.arg.target_column)}

\* C20 (amended): diagnostic_analysis keeps one comparison per segment
\* column present in the data and derives, for each entry of segment_columns
\* naming such a column, one performance-gap insight naming a segment of
\* highest and a segment of lowest mean when at least two segments of the
\* column have an observation of the target and none otherwise, plus one
\* insight for each comparison with p < 0.05 and none for the others
C20_InsightsPerColumnEntry ==
  Analysed =>
    /\ OneComparisonPerColumn
    /\ NoOtherInsight
    /\ \A col \in ColumnsPresent :
         /\ Cardinality(GapInsights(col))
              = IF Cardinality(ObservedSegments(col)) >= 2 THEN Occurrences(col) ELSE 0
         /\ \A i \in GapInsights(col) : NamesBestAndWorst(col, last.ret.insights[i])
         /\ SignificantInsightsRight(col, IF Cardinality(ObservedSegments(col)) >= 2
                                          THEN Occurrences(col) ELSE 0)

\* C20: diagnostic_analysis derives, for each segment column present in the
\* data with at least two segments, exactly one performance-gap insight
\* naming the segments of highest and lowest mean, plus exactly one insight
\* for each comparison with p < 0.05 and none for the others
C20_InsightsPerColumn ==
  Analysed =>
    /\ OneComparisonPerColumn
    /\ NoOtherInsight
    /\ \A col \in ColumnsPresent :
         /\ Cardinality(SegmentsOf(last.arg.df, col)) >= 2
              => /\ Cardinality(GapInsights(col)) = 1
                 /\ \A i \in GapInsights(col) : NamesBestAndWorst(col, last.ret.insights[i])
         /\ SignificantInsightsRight(col, 1)

\* an analysis of the example frame by plan and by paid: each column gives
\* its gap insight and the insight about its one significant comparison
C20_Witness ==
  /\ Analysed
  /\ last.arg.df = FreeAndPro
  /\ last.arg.segment_columns = <<PlanCol, PaidCol>>
  /\ Len(last.ret.insights) = 4
  /\ last.ret.insights[1].best_segment = "pro"
  /\ last.ret.insights[1].worst_segment = "free"
  /\ Cardinality(SignificantInsights(PaidCol, "no", "yes")) = 1

(***************************************************************************)
(* Properties of get_analysis_summary (specification Spec).                *)
(***************************************************************************)
\* the time a step contributes: none for a sanity-check or EDA step
TimeOf(step) == IF step.kind \in {"sanity", "eda"} THEN 0 ELSE step.execution_time.n

RECURSIVE TimeUpTo(_, _)
TimeUpTo(log, i) == IF i = 0 THEN 0 ELSE TimeUpTo(log, i - 1) + TimeOf(log[i])

\* the call just made was an add_step on which validation ran
ValidationRan(call) ==
  /\ call.op = "add_step"
  /\ ~call.raised
  /\ call.arg.validate
  /\ Len(call.arg.aggregation_column) > 0
  /\ Len(call.arg.segment_columns) > 0
  /\ Len(call.arg.table_name) > 0

SummaryStep ==
  /\ get_analysis_summary(steps').total_steps = Len(steps')
  /\ get_analysis_summary(steps').total_execution_time = TimeUpTo(steps', Len(steps'))
  /\ Len(get_analysis_summary(steps').steps) = Len(steps')
  /\ \A i \in 1..Len(steps') :
       get_analysis_summary(steps').steps[i].step_number = steps'[i].step_number
  /\ \A i \in 1..Len(steps) :
       get_analysis_summary(steps').steps[i] = get_analysis_summary(steps).steps[i]
  /\ Len(steps') > Len(steps) =>
       get_analysis_summary(steps').steps[Len(steps')].has_validation = ValidationRan(last')

\* C23: after every operation get_analysis_summary reports total_steps = the
\* number of steps of the log, total_execution_time = the sum of the steps'
\* execution times with 0 for a sanity-check or EDA step, and one digest
\* per step in log order, the digests of earlier steps unchanged and
\* has_validation of a new step true exactly when validation ran on it
C23_SummaryFollowsLog == [][SummaryStep]_vars

\* the log holds a validated query step after a step without recorded time
C23_Witness ==
  /\ Len(steps) = 2
  /\ steps[1].kind \in {"sanity", "eda"}
  /\ ValidationRan(last)
  /\ get_analysis_summary(steps).steps[2].has_validation
  /\ ~get_analysis_summary(steps).steps[1].has_validation
  /\ get_analysis_summary(steps).total_execution_time = steps[2].execution_time.n

(***************************************************************************)
(* Specification SpecCost: the metadata lookup, the performance advisor    *)
(* and add_step on two tables, each small, medium or large, with lookups   *)
(* that fail.                                                              *)
(***************************************************************************)
InitCost ==
  /\ rows = <<1>>
  /\ bulk \in [Tables -> {0, MediumTableRows, LargeTableRows}]
  /\ xname = XPlain
  /\ connected = TRUE
  /\ steps = <<>>
  /\ table_metadata = [t \in {} |-> MetaError]
  /\ last = NoCall
  /\ rules = SessionRules
  /\ check_results = <<>>

CostMetadata == \E table \in Tables, fail \in {{}, {"meta"}} : GetTableMetadata(table, fail)

CostPerformance ==
  \E tables \in {<<TName>>, <<EvName>>, <<EvName, TName>>, <<TName, EvName>>},
     fail \in {{}, {"meta"}} :
    CheckPerformance(CountByG.text, tables, fail)

CostAddStep ==
  \E tables \in extract_table_names(CountByG.text), fail \in {{}, {"meta"}} :
    AddStep(CountByG.text, tables, FALSE, CountByG.label, CountByG.by, CountByG.table,
            fail, 1, {})

NextCost ==
  \/ CostMetadata
  \/ CostPerformance
  \/ CostAddStep

SpecCost == InitCost /\ [][NextCost]_vars

(***************************************************************************)
(* Properties of the estimated cost (specification SpecCost).              *)
(***************************************************************************)
\* the row counts the advisor saw for the tables of the last call
CountsSeen ==
  {table_metadata[last.arg.tables[i]].row_count.n : i \in 1..Len(last.arg.tables)}

\* C25: the estimated_cost of a query of several tables is the highest tier
\* among them, whatever the order of the tables: high if any table has more
\* than 1,000,000 rows, otherwise medium if any has more than 100,000 rows,
\* otherwise low
C25_CostIsHighestTier ==
  (/\ last.op = "check_performance"
   /\ \A i \in 1..Len(last.arg.tables) : last.arg.tables[i] \in DOMAIN table_metadata)
  => last.ret.estimated_cost
       = IF \E n \in CountsSeen : n > LargeTableRows THEN "high"
         ELSE IF \E n \in CountsSeen : n > MediumTableRows THEN "medium"
         ELSE "low"

(***************************************************************************)
(* Properties of a failed metadata lookup (specification SpecCost).        *)
(***************************************************************************)
\* the tables of a call whose lookup failed: not cached before the call,
\* while the store rejected the metadata queries
FailedLookups(tables) ==
  IF "meta" \in last'.arg.fail
  THEN {tables[i] : i \in 1..Len(tables)} \ DOMAIN table_metadata
  ELSE {}

NoWarningFor(perf, table) ==
  /\ \A i \in 1..Len(perf.warnings) : perf.warnings[i].table # table
  /\ \A i \in 1..Len(perf.recommendations) : perf.recommendations[i].table # table

FailedLookupStep ==
  /\ last'.op = "get_table_metadata" =>
       /\ last'.arg.table_name \notin DOMAIN table_metadata => last'.queries > 0
       /\ FailedLookups(<<last'.arg.table_name>>) # {} =>
            /\ last'.ret.row_count = NoneV
            /\ last'.ret.columns = <<>>
            /\ table_metadata' = table_metadata
  /\ last'.op = "check_performance" =>
       /\ \A table \in FailedLookups(last'.arg.tables) :
            /\ table \notin DOMAIN table_metadata'
            /\ NoWarningFor(last'.ret, table)
  /\ last'.op = "add_step" =>
       /\ \A table \in FailedLookups(last'.arg.tables) :
            /\ table \notin DOMAIN table_metadata'
            /\ ~last'.raised
            /\ steps' = Append(steps, last'.ret.step)
            /\ last'.ret.step.row_count # NoneV
            /\ NoWarningFor(last'.ret.step.metadata.performance, table)

\* C26: a failed metadata lookup returns an entry with row_count None and no
\* columns and leaves the cache without an entry for the table, a lookup of
\* a table that is not cached asks the store, check_performance emits no
\* warning and no recommendation for a table whose lookup failed, and
\* add_step still executes the query and appends the step
C26_FailedLookupIsHarmless == [][FailedLookupStep]_vars

\* add_step went through although the lookup of its large table failed, and
\* the table is still not cached
C26_Witness ==
  /\ last.op = "add_step"
  /\ "meta" \in last.arg.fail
  /\ ~last.raised
  /\ Len(steps) >= 1
  /\ steps[Len(steps)].metadata.performance.warnings = <<>>
  /\ bulk[TName] = LargeTableRows
  /\ TName \notin DOMAIN table_metadata

(***************************************************************************)
(* Specification SpecStep: add_step with validation on a table that may    *)
(* hold a row without g, while the store rejects the aggregation re-run or *)
(* a raw-sample query, or the aggregation column is not in the result.     *)
(***************************************************************************)
AbsentColumn == <<"z">>

InitStep ==
  /\ rows \in {<<1>>, <<1, 4>>}
  /\ bulk = [t \in Tables |-> 0]
  /\ xname = XPlain
  /\ connected = TRUE
  /\ steps = <<>>
  /\ table_metadata = [t \in {} |-> MetaError]
  /\ last = NoCall
  /\ rules = SessionRules
  /\ check_results = <<>>

StepAdd ==
  \E validate \in BOOLEAN, aggregation_column \in {CountByG.label, AbsentColumn},
     fail \in {{}, {"agg"}, {"raw"}} :
    AddStep(CountByG.text, <<TName>>, validate, aggregation_column, CountByG.by,
            CountByG.table, fail, 1, {})

StepInsert == \E i \in {2, 4} : StoreInsert(TName, i)

NextStep ==
  \/ StepAdd
  \/ StepInsert

SpecStep == InitStep /\ [][NextStep]_vars

(***************************************************************************)
(* Properties of add_step and the log (specification SpecStep).            *)
(***************************************************************************)
AllOrNothing ==
  last'.op = "add_step" =>
    /\ last'.raised => steps' = steps
    /\ ~last'.raised =>
         /\ steps' = Append(steps, last'.ret.step)
         /\ last'.ret.step.validation_results.present = ValidationRan(last')
         /\ ValidationRan(last') =>
              Len(last'.ret.step.validation_results.cases) = Len(last'.ret.cases)

\* C27: when add_step raises, whether on the primary query, on the
\* aggregation re-run, on a raw-sample query or on an aggregation column
\* absent from the result, the log is exactly as before the call; when it
\* returns, the log has gained exactly the returned step, which carries its
\* validation results if validation ran
C27_StepIsAllOrNothing == [][AllOrNothing]_vars

\* validation raised on the absent aggregation column after the primary
\* query had succeeded, and the log holds only the earlier validated step
C27_Witness ==
  /\ last.op = "add_step"
  /\ last.raised
  /\ last.error = "KeyError"
  /\ Len(steps) = 1
  /\ steps[1].validation_results.present

(***************************************************************************)
(* Properties of the raw sample (specification SpecValidate).              *)
(***************************************************************************)
\* aggregation_column.lower() in ['count', 'count(*)']
IsCountColumn(aggregation_column) ==
  Lower(aggregation_column) \in {<<"c","o","u","n","t">>, <<"c","o","u","n","t","(","*",")">>}

\* the rows of t in the segment of a returned case
SegmentOf(case) == Population(case.description[1].val)

CappedCase(case) ==
  /\ case.notes <= 100
  /\ case.notes = IF BagLen(SegmentOf(case)) < 100 THEN BagLen(SegmentOf(case)) ELSE 100
  /\ IsCountColumn(last.arg.aggregation_column) =>
       /\ case.expected_value = IntV(case.notes)
       /\ case.expected_value.n <= 100
       /\ (/\ BagLen(SegmentOf(case)) > 100
           /\ case.actual_value = IntV(BagLen(SegmentOf(case))))
          => case.passed = "False"

\* C29: every validation case examines at most 100 raw rows and its notes
\* give the number examined; for a Count aggregation the expected value is
\* that number, so at most 100, and a segment of more than 100 rows whose
\* count is reported correctly is recorded with passed = false
C29_SampleIsCapped ==
  (last.op = "validate_aggregation" /\ ~last.raised) =>
    \A i \in 1..Len(last.ret) : CappedCase(last.ret[i])

\* a segment of more than 100 rows, counted correctly, did not pass
C29_Witness ==
  /\ last.op = "validate_aggregation"
  /\ ~last.raised
  /\ IsCountColumn(last.arg.aggregation_column)
  /\ Len(last.ret) >= 1
  /\ BagLen(SegmentOf(last.ret[1])) > 100
  /\ last.ret[1].actual_value = IntV(BagLen(SegmentOf(last.ret[1])))
  /\ last.ret[1].notes = 100
  /\ last.ret[1].passed = "False"

\* the first num_cases rows of the aggregated result of the last call
Sampled ==
  FrameHead(StoreFrame(last.arg.query, Store({}, {})).rows, last.arg.num_cases)

\* the raw-data query filters on the segment column
FiltersOn(text, col) == Contains(text, Words(<<kwWhere, col, <<"=">> >>))

\* C30: for each of the first num_cases rows of the aggregated result, in
\* result order, validate_aggregation produces exactly one case whose raw
\* filter constrains every segment column to that row's value, also for the
\* row of the NULL group
C30_OneCasePerSampledRow ==
  last.op = "validate_aggregation" =>
    /\ Len(Returned) = Len(Sampled)
    /\ \A i \in 1..Len(Returned) :
         /\ Returned[i].case_id = i
         /\ \A k \in 1..Len(last.arg.segment_columns) :
              /\ Returned[i].description[k].val = Sampled[i][last.arg.segment_columns[k]]
              /\ FiltersOn(Returned[i].raw_data_query, last.arg.segment_columns[k])

(***************************************************************************)
(* EDAAnalyzer (src/eda_analyzer.py).                                      *)
(* A frame df is [schema, runs, dtype]: the table has the numeric column   *)
(* amt and a second column that depends on the schema; a run is n rows     *)
(* with the same cells a (amt) and b (the second column); dtype gives the  *)
(* dtype of each column, "number", "object" or "datetime".                 *)
(***************************************************************************)
AmtCol == <<"a","m","t">>
TimeSpent == <<"t","i","m","e","_","s","p","e","n","t">>
CreatedBy == <<"c","r","e","a","t","e","d","_","b","y">>

\* the schemas: a text column g, a numeric column time_spent, a text column
\* created_by, a timestamp column created_at (its cells are day numbers)
EdaSchemas == {"plain", "spent", "author", "dated"}

SecondCol(schema) ==
  CASE schema = "plain" -> GCol
    [] schema = "spent" -> TimeSpent
    [] schema = "author" -> CreatedBy
    [] OTHER -> CreatedAt

ColumnName(schema, c) == IF c = "a" THEN AmtCol ELSE SecondCol(schema)

\* the dtype the store's column type gives when the column holds a value
DeclaredType(schema, c) ==
  IF c = "a" \/ schema = "spent" THEN "number"
  ELSE IF schema = "dated" THEN "datetime" ELSE "object"

\* pd.read_sql_query: a column holding only NULL is an object column of None
ReadFrame(schema, runs) ==
  [schema |-> schema, runs |-> runs,
   dtype |-> [c \in {"a", "b"} |->
                IF \A i \in 1..Len(runs) : ~NotNa(runs[i][c]) THEN "object"
                ELSE DeclaredType(schema, c)]]

\* any(word in col.lower() for word in ['date', 'time', 'created', 'occurred', 'timestamp'])
DateWords ==
  {<<"d","a","t","e">>, <<"t","i","m","e">>, <<"c","r","e","a","t","e","d">>,
   <<"o","c","c","u","r","r","e","d">>, <<"t","i","m","e","s","t","a","m","p">>}

DateLike(col) == \E word \in DateWords : Contains(Lower(col), word)

\* df.select_dtypes(...).columns, in column order
ColumnsOfType(df, types) == SelectSeq(<<"a", "b">>, LAMBDA c : df.dtype[c] \in types)

RECURSIVE RowsIn(_)
RowsIn(runs) == IF Len(runs) = 0 THEN 0 ELSE Head(runs).n + RowsIn(Tail(runs))

\* df[col].dropna() as runs of [v, n]
col_data(df, c) ==
  [i \in 1..Len(SelectSeq(df.runs, LAMBDA r : NotNa(r[c]))) |->
     [v |-> SelectSeq(df.runs, LAMBDA r : NotNa(r[c]))[i][c].n,
      n |-> SelectSeq(df.runs, LAMBDA r : NotNa(r[c]))[i].n]]

(***************************************************************************)
(* Natural numbers beyond the machine word, least significant digit first  *)
(* in base 1000: the statistics below multiply sums of squares and cubes.  *)
(***************************************************************************)
RECURSIVE Big(_)
Big(k) == IF k < 1000 THEN <<k>> ELSE <<k % 1000>> \o Big(k \div 1000)

RECURSIVE BigAdd(_, _, _)
BigAdd(a, b, carry) ==
  IF Len(a) = 0 /\ Len(b) = 0 THEN (IF carry = 0 THEN <<>> ELSE <<carry>>)
  ELSE The({ <<x % 1000>> \o BigAdd(IF Len(a) = 0 THEN a ELSE Tail(a),
                                    IF Len(b) = 0 THEN b ELSE Tail(b), x \div 1000) :
             x \in {(IF Len(a) = 0 THEN 0 ELSE a[1])
                    + (IF Len(b) = 0 THEN 0 ELSE b[1]) + carry} })

\* a - b for a >= b
RECURSIVE BigSub(_, _, _)
BigSub(a, b, borrow) ==
  IF Len(a) = 0 THEN <<>>
  ELSE The({ <<(x + 1000) % 1000>> \o BigSub(Tail(a), IF Len(b) = 0 THEN b ELSE Tail(b),
                                             IF x < 0 THEN 1 ELSE 0) :
             x \in {a[1] - (IF Len(b) = 0 THEN 0 ELSE b[1]) - borrow} })

\* a * d for a digit d
RECURSIVE BigTimes(_, _, _)
BigTimes(a, d, carry) ==
  IF Len(a) = 0 THEN (IF carry = 0 THEN <<>> ELSE Big(carry))
  ELSE <<(a[1] * d + carry) % 1000>> \o BigTimes(Tail(a), d, (a[1] * d + carry) \div 1000)

RECURSIVE BigMul(_, _)
BigMul(a, b) ==
  IF Len(a) = 0 THEN <<>>
  ELSE BigAdd(BigTimes(b, a[1], 0), <<0>> \o BigMul(Tail(a), b), 0)

RECURSIVE BigTrim(_)
BigTrim(a) ==
  IF Len(a) = 0 \/ a[Len(a)] # 0 THEN a ELSE BigTrim(SubSeq(a, 1, Len(a) - 1))

BigLessTrimmed(x, y) ==
  IF Len(x) # Len(y) THEN Len(x) < Len(y)
  ELSE \E i \in 1..Len(x) : x[i] < y[i] /\ \A j \in (i + 1)..Len(x) : x[j] = y[j]

BigLess(a, b) == BigLessTrimmed(BigTrim(a), BigTrim(b))

BigCube(k) == BigMul(Big(k), BigMul(Big(k), Big(k)))

\* C21: a run_eda call whose table read the store rejects still returns a
\* profile: the rejection never reaches the caller.
C21_RejectedReadIsDegraded == last.op = "run_eda" => last.error # "QueryError"

(***************************************************************************)
(* Statistics of a column without its nulls (runs of [v, n]).              *)
(***************************************************************************)
RECURSIVE SumOf(_)
SumOf(cd) == IF Len(cd) = 0 THEN 0 ELSE Head(cd).v * Head(cd).n + SumOf(Tail(cd))

\* how many values are at most x
AtMost(cd, x) == RowsIn(SelectSeq(cd, LAMBDA r : r.v <= x))

\* the value at position k (from 0) of the sorted column
ValueAt(cd, k) ==
  The({ v \in {cd[i].v : i \in 1..Len(cd)} :
          /\ AtMost(cd, v) > k
          /\ \A w \in {cd[i].v : i \in 1..Len(cd)} : AtMost(cd, w) > k => v <= w })

\* Series.quantile(q / 4) with linear interpolation, times four
QuantileTimes4(cd, q) ==
  The({ 4 * ValueAt(cd, pos \div 4)
        + (IF pos % 4 = 0 THEN 0
           ELSE (pos % 4) * (ValueAt(cd, pos \div 4 + 1) - ValueAt(cd, pos \div 4))) :
        pos \in {q * (RowsIn(cd) - 1)} })

quantile(cd, q) == FloatV(QuantileTimes4(cd, q), 4)

\* Q1 - 1.5 * IQR and Q3 + 1.5 * IQR, times eight
LowerTimes8(cd) == 2 * QuantileTimes4(cd, 1) - 3 * (QuantileTimes4(cd, 3) - QuantileTimes4(cd, 1))
UpperTimes8(cd) == 2 * QuantileTimes4(cd, 3) + 3 * (QuantileTimes4(cd, 3) - QuantileTimes4(cd, 1))

lower_bound(cd) == FloatV(LowerTimes8(cd), 8)
upper_bound(cd) == FloatV(UpperTimes8(cd), 8)

\* a variant that also takes the values on the bounds
outliers_on_bounds(cd) ==
  The({ SelectSeq(cd, LAMBDA r : 8 * r.v <= b[1] \/ 8 * r.v >= b[2]) :
        b \in {<<LowerTimes8(cd), UpperTimes8(cd)>>} })

\* col_data[(col_data < lower_bound) | (col_data > upper_bound)]
outliers(cd) ==
  The({ SelectSeq(cd, LAMBDA r : 8 * r.v < b[1] \/ 8 * r.v > b[2]) :
        b \in {<<LowerTimes8(cd), UpperTimes8(cd)>>} })

\* the sum of n * |N * v - S| ^ k over the values on one side of the mean
RECURSIVE DevPowers(_, _, _, _, _)
DevPowers(cd, N, S, k, side) ==
  IF Len(cd) = 0 THEN <<>>
  ELSE BigAdd(IF (side = "above" /\ N * Head(cd).v > S) \/ (side = "below" /\ N * Head(cd).v < S)
              THEN BigTimes(IF k = 2
                            THEN BigMul(Big(Abs(N * Head(cd).v - S)), Big(Abs(N * Head(cd).v - S)))
                            ELSE BigCube(Abs(N * Head(cd).v - S)),
                            Head(cd).n, 0)
              ELSE <<>>,
              DevPowers(Tail(cd), N, S, k, side), 0)

\* scipy.stats.skew: m3 / m2 ** 1.5 of the biased central moments; with
\* M2 and M3 the sums of powers of N * v - S, skew ** 2 = N * M3 ** 2 / M2 ** 3.
\* The model keeps the sign and whether abs(skewness) > 2.
SkewnessFrom(N, M2, above, below) ==
  IF Len(BigTrim(M2)) = 0 THEN [sign |-> 0, high |-> FALSE]
  ELSE The({ [sign |-> IF BigLess(below, above) THEN 1
                       ELSE IF BigLess(above, below) THEN -1 ELSE 0,
              high |-> BigLess(BigTimes(BigMul(M2, BigMul(M2, M2)), 4, 0),
                               BigMul(Big(N), BigMul(M3, M3)))] :
             M3 \in {IF BigLess(above, below) THEN BigSub(below, above, 0)
                     ELSE BigSub(above, below, 0)} })

skew(cd) ==
  The({ SkewnessFrom(m[1], BigAdd(DevPowers(cd, m[1], m[2], 2, "above"),
                                  DevPowers(cd, m[1], m[2], 2, "below"), 0),
                     DevPowers(cd, m[1], m[2], 3, "above"),
                     DevPowers(cd, m[1], m[2], 3, "below")) :
        m \in {<<RowsIn(cd), SumOf(cd)>>} })

zero_count(cd) == RowsIn(SelectSeq(cd, LAMBDA r : r.v = 0))

\* a flag: its type, the column or the two columns it is about, its number
EdaFlag(type, columns, count) == [type |-> type, columns |-> columns, count |-> count]

NumericDistribution(column, cd) ==
  [column |-> column,
   skewness |-> skew(cd),
   outlier_count |-> RowsIn(outliers(cd)),
   outlier_percentage |-> FloatV(100 * RowsIn(outliers(cd)), RowsIn(cd)),
   zero_count |-> zero_count(cd),
   zero_percentage |-> FloatV(100 * zero_count(cd), RowsIn(cd))]

\* the flags of one numeric column: abs(skewness) > 2, len(outliers) > 0,
\* zero_pct > 50
NumericFlags(column, cd) ==
  (IF skew(cd).high THEN <<EdaFlag("high_skewness", <<column>>, 0)>> ELSE <<>>)
  \o (IF RowsIn(outliers(cd)) > 0
      THEN <<EdaFlag("outliers", <<column>>, RowsIn(outliers(cd)))>> ELSE <<>>)
  \o (IF 2 * zero_count(cd) > RowsIn(cd)
      THEN <<EdaFlag("zero_inflation", <<column>>, zero_count(cd))>> ELSE <<>>)

\* the non-null cells of a column, as runs of [v, n]
cells(df, c) ==
  [i \in 1..Len(SelectSeq(df.runs, LAMBDA r : NotNa(r[c]))) |->
     [v |-> SelectSeq(df.runs, LAMBDA r : NotNa(r[c]))[i][c],
      n |-> SelectSeq(df.runs, LAMBDA r : NotNa(r[c]))[i].n]]

\* df[col].value_counts().iloc[0], 0 for a column without values
TopCount(cs) ==
  IF Len(cs) = 0 THEN 0
  ELSE The({ k \in {RowsIn(SelectSeq(cs, LAMBDA r : r.v = cs[i].v)) : i \in 1..Len(cs)} :
               \A j \in 1..Len(cs) : RowsIn(SelectSeq(cs, LAMBDA r : r.v = cs[j].v)) <= k })

CategoricalDistribution(column, cs) ==
  [column |-> column,
   unique_count |-> Cardinality({cs[i].v : i \in 1..Len(cs)}),
   max_class_percentage |-> IF Len(cs) = 0 THEN FloatV(0, 1)
                            ELSE FloatV(100 * TopCount(cs), RowsIn(cs))]

\* unique_count > 50; max_class_pct > 90, where the floating-point product
\* (9 / 10) * 100 is 90.00000000000001
CategoricalFlags(column, cs) ==
  (IF Cardinality({cs[i].v : i \in 1..Len(cs)}) > 50
   THEN <<EdaFlag("high_cardinality", <<column>>, Cardinality({cs[i].v : i \in 1..Len(cs)}))>>
   ELSE <<>>)
  \o (IF Len(cs) > 0 /\ 10 * TopCount(cs) >= 9 * RowsIn(cs)
      THEN <<EdaFlag("imbalanced_classes", <<column>>, TopCount(cs))>> ELSE <<>>)

RECURSIVE Flatten(_)
Flatten(ss) == IF Len(ss) = 0 THEN <<>> ELSE Head(ss) \o Flatten(Tail(ss))

\* the numeric columns that hold a value
AnalysedNumeric(df) ==
  SelectSeq(ColumnsOfType(df, {"number"}), LAMBDA c : Len(col_data(df, c)) > 0)

\* EDAAnalyzer._analyze_distributions(df)
analyze_distributions(df) ==
  [numeric_distributions |->
     [i \in 1..Len(AnalysedNumeric(df)) |->
        NumericDistribution(ColumnName(df.schema, AnalysedNumeric(df)[i]),
                            col_data(df, AnalysedNumeric(df)[i]))],
   categorical_distributions |->
     [i \in 1..Len(ColumnsOfType(df, {"object"})) |->
        CategoricalDistribution(ColumnName(df.schema, ColumnsOfType(df, {"object"})[i]),
                                cells(df, ColumnsOfType(df, {"object"})[i]))],
   flags |->
     Flatten([i \in 1..Len(AnalysedNumeric(df)) |->
                NumericFlags(ColumnName(df.schema, AnalysedNumeric(df)[i]),
                             col_data(df, AnalysedNumeric(df)[i]))])
     \o Flatten([i \in 1..Len(ColumnsOfType(df, {"object"})) |->
                   CategoricalFlags(ColumnName(df.schema, ColumnsOfType(df, {"object"})[i]),
                                    cells(df, ColumnsOfType(df, {"object"})[i]))])]

\* pd.to_datetime(df[col], errors='coerce') assigned back to df[col]: a
\* number is read as nanoseconds after the epoch (day 0), a text that is no
\* date becomes NaT, and the column's dtype becomes datetime64
to_datetime(df, c) ==
  [df EXCEPT !.dtype[c] = "datetime",
             !.runs = [i \in 1..Len(df.runs) |->
                         [df.runs[i] EXCEPT ![c] =
                            IF df.dtype[c] = "datetime" THEN @
                            ELSE IF df.dtype[c] = "number" /\ NotNa(@) THEN IntV(0)
                            ELSE NoneV]]]

\* [col for col in df.columns if any(word in col.lower() for word in [...])]
date_columns(df) == SelectSeq(<<"a", "b">>, LAMBDA c : DateLike(ColumnName(df.schema, c)))

\* the frame after the date-range loop of _calculate_basic_stats
RECURSIVE Converted(_, _)
Converted(df, cols) ==
  IF Len(cols) = 0 THEN df ELSE Converted(to_datetime(df, Head(cols)), Tail(cols))

NullCount(df, c) == RowsIn(SelectSeq(df.runs, LAMBDA r : ~NotNa(r[c])))

\* the days of a datetime column
Days(df, c) == {df.runs[i][c].n : i \in {j \in 1..Len(df.runs) : NotNa(df.runs[j][c])}}

Least(S) == CHOOSE x \in S : \A y \in S : x <= y
Greatest(S) == CHOOSE x \in S : \A y \in S : y <= x

\* stats_dict['date_range']: the last date-like column that holds a date
DateRange(df, cols) ==
  The({ IF Len(held) = 0 THEN <<>>
        ELSE <<[column |-> ColumnName(df.schema, held[Len(held)]),
                min |-> Least(Days(df, held[Len(held)])),
                max |-> Greatest(Days(df, held[Len(held)])),
                span_days |-> Greatest(Days(df, held[Len(held)]))
                              - Least(Days(df, held[Len(held)]))]>> :
        held \in {SelectSeq(cols, LAMBDA c : Days(df, c) # {})} })

\* EDAAnalyzer._calculate_basic_stats(df, table_name): the statistics
calculate_basic_stats(df) ==
  [row_count |-> RowsIn(df.runs),
   columns |-> <<ColumnName(df.schema, "a"), ColumnName(df.schema, "b")>>,
   null_summary |->
     [i \in 1..Len(SelectSeq(<<"a", "b">>, LAMBDA c : NullCount(df, c) > 0)) |->
        The({ [column |-> ColumnName(df.schema, c),
               null_count |-> NullCount(df, c),
               null_percentage |-> FloatV(100 * NullCount(df, c), RowsIn(df.runs))] :
              c \in {SelectSeq(<<"a", "b">>, LAMBDA k : NullCount(df, k) > 0)[i]} })],
   numeric_summary |->
     [i \in 1..Len(ColumnsOfType(df, {"number"})) |->
        [column |-> ColumnName(df.schema, ColumnsOfType(df, {"number"})[i]),
         count |-> RowsIn(col_data(df, ColumnsOfType(df, {"number"})[i]))]],
   categorical_summary |->
     [i \in 1..Len(ColumnsOfType(df, {"object"})) |->
        [column |-> ColumnName(df.schema, ColumnsOfType(df, {"object"})[i]),
         null_count |-> NullCount(df, ColumnsOfType(df, {"object"})[i])]],
   date_range |-> DateRange(Converted(df, date_columns(df)), date_columns(df))]

\* ... and the frame it leaves behind: df[col] is assigned in place
FrameAfterBasicStats(df) == Converted(df, date_columns(df))

\* the rows that hold both columns, as runs of [x, y, n]
Pairs(df) ==
  [i \in 1..Len(SelectSeq(df.runs, LAMBDA r : NotNa(r.a) /\ NotNa(r.b))) |->
     The({ [x |-> r.a.n, y |-> r.b.n, n |-> r.n] :
           r \in {SelectSeq(df.runs, LAMBDA k : NotNa(k.a) /\ NotNa(k.b))[i]} })]

RECURSIVE SumProduct(_, _, _)
SumProduct(ps, f, g) ==
  IF Len(ps) = 0 THEN 0
  ELSE Head(ps).n * (IF f = "1" THEN 1 ELSE Head(ps)[f]) * (IF g = "1" THEN 1 ELSE Head(ps)[g])
       + SumProduct(Tail(ps), f, g)

\* N times the sum of f * g minus the product of the sums
Covariation(ps, f, g) ==
  RowsIn(ps) * SumProduct(ps, f, g) - SumProduct(ps, f, "1") * SumProduct(ps, g, "1")

\* DataFrame.corr() of the two columns: NaN (no entry) when a column does
\* not vary over the rows that hold both; else the sign and whether
\* abs(corr) > 0.7, that is 100 * cov ** 2 > 49 * var_x * var_y
corr(ps) ==
  The({ IF c[2] = 0 \/ c[3] = 0 THEN <<>>
        ELSE <<[sign |-> IF c[1] > 0 THEN 1 ELSE IF c[1] < 0 THEN -1 ELSE 0,
                high |-> BigLess(BigTimes(BigMul(Big(c[2]), Big(c[3])), 49, 0),
                                 BigTimes(BigMul(Big(Abs(c[1])), Big(Abs(c[1]))), 100, 0))]>> :
        c \in {<<Covariation(ps, "x", "y"), Covariation(ps, "x", "x"),
                 Covariation(ps, "y", "y")>>} })

\* EDAAnalyzer._analyze_relationships(df)
analyze_relationships(df) ==
  IF Len(ColumnsOfType(df, {"number"})) > 1
  THEN [correlations |->
          [i \in 1..Len(corr(Pairs(df))) |->
             [column1 |-> ColumnName(df.schema, "a"), column2 |-> ColumnName(df.schema, "b"),
              correlation |-> corr(Pairs(df))[i]]],
        flags |->
          IF Len(corr(Pairs(df))) > 0 /\ corr(Pairs(df))[1].high
          THEN <<EdaFlag("high_correlation",
                         <<ColumnName(df.schema, "a"), ColumnName(df.schema, "b")>>, 0)>>
          ELSE <<>>]
  ELSE [correlations |-> <<>>, flags |-> <<>>]

\* date_diff.max().days: the widest gap between two dates that follow
\* each other in the sorted column
MaxGap(days) ==
  Greatest({0} \cup {e - d : <<d, e>> \in {p \in days \X days :
                                            p[1] < p[2] /\ \A x \in days : ~(p[1] < x /\ x < p[2])}})

\* EDAAnalyzer._analyze_time_series(df, date_column), run on the day today.
\* With a single dated row date_diff holds only NaT, NaT.days is nan and
\* int(nan) raises; the except clause records the error.
analyze_time_series(df, date_column, today) ==
  The({ IF RowsIn(cells(dated, date_column)) = 0
        THEN [temporal_coverage |-> <<>>, flags |-> <<>>, error |-> FALSE]
        ELSE IF RowsIn(cells(dated, date_column)) = 1
        THEN [temporal_coverage |-> <<>>, flags |-> <<>>, error |-> TRUE]
        ELSE [temporal_coverage |->
                <<[first_date |-> Least(Days(dated, date_column)),
                   last_date |-> Greatest(Days(dated, date_column)),
                   max_gap_days |-> MaxGap(Days(dated, date_column)),
                   days_since_last |->
                     IF today = Greatest(Days(dated, date_column)) THEN NoneV
                     ELSE IntV(today - Greatest(Days(dated, date_column)))]>>,
              flags |->
                (IF MaxGap(Days(dated, date_column)) > 7
                 THEN <<EdaFlag("data_gaps", <<ColumnName(df.schema, date_column)>>,
                                MaxGap(Days(dated, date_column)))>>
                 ELSE <<>>)
                \o (IF today - Greatest(Days(dated, date_column)) > 7
                    THEN <<EdaFlag("recent_data_missing", <<ColumnName(df.schema, date_column)>>,
                                   today - Greatest(Days(dated, date_column)))>>
                    ELSE <<>>),
              error |-> FALSE] :
        dated \in {to_datetime(df, date_column)} })

\* EDAAnalyzer._generate_flags(results): a phase that did not run left {}
generate_flags(results) ==
  Flatten([i \in 1..Len(results.distribution_analysis) |-> results.distribution_analysis[i].flags])
  \o Flatten([i \in 1..Len(results.relationship_analysis) |-> results.relationship_analysis[i].flags])
  \o Flatten([i \in 1..Len(results.time_series_analysis) |-> results.time_series_analysis[i].flags])

Question(trigger, columns) == [trigger |-> trigger, columns |-> columns]

\* the null questions: null_percentage > 30, where the floating-point
\* product (3 / 10) * 100 is 30.000000000000004
NullQuestions(null_summary) ==
  [i \in 1..Len(SelectSeq(null_summary, LAMBDA e : e.null_percentage.n >= 30 * e.null_percentage.d)) |->
     Question("null_percentage > 30",
              <<SelectSeq(null_summary,
                          LAMBDA e : e.null_percentage.n >= 30 * e.null_percentage.d)[i].column>>)]

QuestionsFor(flags, type, trigger) ==
  [i \in 1..Len(SelectSeq(flags, LAMBDA f : f.type = type)) |->
     Question(trigger, SelectSeq(flags, LAMBDA f : f.type = type)[i].columns)]

\* a variant that asks about every flag of the distribution analysis
generate_typical_questions_for_every_flag(results) ==
  Flatten([i \in 1..Len(results.basic_stats) |-> NullQuestions(results.basic_stats[i].null_summary)])
  \o Flatten([i \in 1..Len(results.distribution_analysis) |->
                [j \in 1..Len(results.distribution_analysis[i].flags) |->
                   Question("outliers_detected", results.distribution_analysis[i].flags[j].columns)]])
  \o Flatten([i \in 1..Len(results.relationship_analysis) |->
                QuestionsFor(results.relationship_analysis[i].flags, "high_correlation",
                             "high_correlation_detected")])

\* EDAAnalyzer._generate_typical_questions(results)
generate_typical_questions(results) ==
  Flatten([i \in 1..Len(results.basic_stats) |-> NullQuestions(results.basic_stats[i].null_summary)])
  \o Flatten([i \in 1..Len(results.distribution_analysis) |->
                QuestionsFor(results.distribution_analysis[i].flags, "outliers", "outliers_detected")])
  \o Flatten([i \in 1..Len(results.relationship_analysis) |->
                QuestionsFor(results.relationship_analysis[i].flags, "high_correlation",
                             "high_correlation_detected")])

\* the phases of run_eda; self.rules names the disabled ones, every other
\* one runs (.get('enabled', True))
EdaPhases == {"basic_stats", "distribution_analysis", "relationship_analysis", "time_series_analysis"}

EmptyResults ==
  [basic_stats |-> <<>>, distribution_analysis |-> <<>>, relationship_analysis |-> <<>>,
   time_series_analysis |-> <<>>, flags |-> <<>>, typical_questions |-> <<>>]

\* the analyses of run_eda: each phase sees the frame the earlier ones left
PhaseResults(df, enabled, today) ==
  The({ [EmptyResults EXCEPT
           !.basic_stats =
              IF "basic_stats" \in enabled THEN <<calculate_basic_stats(df)>> ELSE <<>>,
           !.distribution_analysis =
              IF "distribution_analysis" \in enabled THEN <<analyze_distributions(seen)>> ELSE <<>>,
           !.relationship_analysis =
              IF "relationship_analysis" \in enabled THEN <<analyze_relationships(seen)>> ELSE <<>>,
           !.time_series_analysis =
              IF Len(date_columns(df)) > 0 /\ "time_series_analysis" \in enabled
              THEN <<analyze_time_series(seen, date_columns(df)[1], today)>> ELSE <<>>] :
        seen \in {IF "basic_stats" \in enabled THEN FrameAfterBasicStats(df) ELSE df} })

\* EDAAnalyzer.run_eda(table_name) once the table has been read into df
run_eda(df, enabled, today) ==
  IF RowsIn(df.runs) = 0 THEN EmptyResults
  ELSE The({ [analysed EXCEPT !.flags = generate_flags(analysed),
                              !.typical_questions = generate_typical_questions(analysed)] :
             analysed \in {PhaseResults(df, enabled, today)} })

(***************************************************************************)
(* Specification SpecEda: EDAAnalyzer.run_eda and _analyze_distributions   *)
(* called once on every frame of at most MaxEdaRuns runs and on the frame  *)
(* whose amt column is 1, 2, 3, 4, 5, 100.                                 *)
(***************************************************************************)
MaxEdaRuns == 2

\* the runs a frame is made of, as <<amt, second cell, rows>>: amt is 0, 1,
\* 100 or NULL, the second cell is NULL (0) or one of two values (1, 2)
EdaShapes ==
  << <<IntV(0), 1, 6>>, <<IntV(0), 0, 1>>, <<IntV(1), 1, 1>>, <<IntV(1), 2, 1>>,
     <<IntV(100), 1, 1>>, <<IntV(100), 2, 1>>, <<NoneV, 1, 1>>, <<NoneV, 0, 2>> >>

\* the second cell: texts a and b, the numbers 1 and 5, the days 1 and 10
SecondCell(schema, b) ==
  IF b = 0 THEN NoneV
  ELSE IF schema = "spent" THEN IntV(IF b = 1 THEN 1 ELSE 5)
  ELSE IF schema = "dated" THEN IntV(IF b = 1 THEN 1 ELSE 10)
  ELSE StrV(IF b = 1 THEN <<"a">> ELSE <<"b">>)

EdaRun(schema, shape) == [a |-> shape[1], b |-> SecondCell(schema, shape[2]), n |-> shape[3]]

ExampleShapes ==
  << <<IntV(1), 1, 1>>, <<IntV(2), 2, 1>>, <<IntV(3), 1, 1>>, <<IntV(4), 2, 1>>,
     <<IntV(5), 1, 1>>, <<IntV(100), 2, 1>> >>

ExampleFrame(schema) ==
  ReadFrame(schema, [i \in 1..Len(ExampleShapes) |-> EdaRun(schema, ExampleShapes[i])])

\* the tables read: the rows come in the order of EdaShapes
EdaFrames ==
  {ExampleFrame(schema) : schema \in EdaSchemas}
  \cup UNION {{ReadFrame(schema, [i \in 1..k |-> EdaRun(schema, EdaShapes[pick[i]])]) :
                 schema \in EdaSchemas,
                 pick \in {p \in [1..k -> 1..Len(EdaShapes)] :
                             \A i \in 1..k, j \in 1..k : i < j => p[i] <= p[j]}} :
              k \in 0..MaxEdaRuns}

\* self.rules: every phase enabled, one phase disabled, every phase disabled
EdaRules == {EdaPhases, {}} \cup {EdaPhases \ {phase} : phase \in EdaPhases}

InitEda ==
  /\ rows = <<>>
  /\ bulk = [t \in Tables |-> 0]
  /\ xname = XPlain
  /\ connected = TRUE
  /\ steps = <<>>
  /\ table_metadata = [t \in {} |-> MetaError]
  /\ last = NoCall
  /\ rules = SessionRules
  /\ check_results = <<>>

\* EDAAnalyzer.run_eda on a table whose rows are df, on the day today
EdaProfile ==
  \E df \in EdaFrames, enabled \in EdaRules, today \in {12, 30} :
    /\ last.op = "none"
    /\ last' = Call("EDAAnalyzer.run_eda", FALSE, "", 1,
                    [df |-> df, enabled |-> enabled, today |-> today],
                    run_eda(df, enabled, today))
    /\ UNCHANGED <<rows, bulk, xname, connected, steps, table_metadata, rules, check_results>>

\* a direct call of _analyze_distributions(df)
EdaDistributions ==
  \E df \in EdaFrames :
    /\ last.op = "none"
    /\ last' = Call("analyze_distributions", FALSE, "", 0,
                    [df |-> df, enabled |-> {"distribution_analysis"}, today |-> 0],
                    analyze_distributions(df))
    /\ UNCHANGED <<rows, bulk, xname, connected, steps, table_metadata, rules, check_results>>

NextEda ==
  \/ EdaProfile
  \/ EdaDistributions

SpecEda == InitEda /\ [][NextEda]_vars

(***************************************************************************)
(* Properties of the profile (specification SpecEda).                      *)
(***************************************************************************)
\* the non-null values of a column in ascending order, one per row
RECURSIVE SortedValues(_, _)
SortedValues(cd, k) ==
  IF k = RowsIn(cd) THEN <<>> ELSE <<ValueAt(cd, k)>> \o SortedValues(cd, k + 1)

\* four times the quartile q of the sorted values xs: the value at the
\* fractional position q * (n - 1) / 4, interpolated between its neighbours
Quartile(xs, q) ==
  The({ IF h % 4 = 0 THEN 4 * xs[h \div 4 + 1]
        ELSE (4 - (h % 4)) * xs[h \div 4 + 1] + (h % 4) * xs[h \div 4 + 2] :
        h \in {q * (Len(xs) - 1)} })

\* the positions of xs strictly outside [Q1 - 1.5 * IQR, Q3 + 1.5 * IQR]
Outside(xs) ==
  {i \in 1..Len(xs) :
     \/ 8 * xs[i] < 2 * Quartile(xs, 1) - 3 * (Quartile(xs, 3) - Quartile(xs, 1))
     \/ 8 * xs[i] > 2 * Quartile(xs, 3) + 3 * (Quartile(xs, 3) - Quartile(xs, 1))}

Flagged(flags, type, column) ==
  \E i \in 1..Len(flags) : flags[i].type = type /\ flags[i].columns = <<column>>

EntryOf(entries, column) == SelectSeq(entries, LAMBDA e : e.column = column)

\* what the analysis says of the numeric column c of df, whose sorted
\* non-null values are xs
DistributionRight(analysis, column, xs) ==
  /\ Len(EntryOf(analysis.numeric_distributions, column)) = 1
  /\ EntryOf(analysis.numeric_distributions, column)[1].outlier_count = Cardinality(Outside(xs))
  /\ Flagged(analysis.flags, "outliers", column) <=> Cardinality(Outside(xs)) >= 1
  /\ Flagged(analysis.flags, "zero_inflation", column)
       <=> 2 * Cardinality({i \in 1..Len(xs) : xs[i] = 0}) > Len(xs)

ExampleRight(analysis, xs) ==
  /\ Quartile(xs, 1) = 9 /\ Quartile(xs, 3) = 19
  /\ Outside(xs) = {6}
  /\ EntryOf(analysis.numeric_distributions, AmtCol)[1].outlier_count = 1

\* C24: for every numeric column that holds a value, _analyze_distributions
\* counts as outliers exactly the values strictly outside
\* [Q1 - 1.5 IQR, Q3 + 1.5 IQR], flags outliers iff there is one and flags
\* zero inflation iff more than half of the values are zero; for
\* 1, 2, 3, 4, 5, 100 the quartiles are 2.25 and 4.75 and 100 is the one
\* outlier.
C24_OutliersAndZeroInflation ==
  last.op = "analyze_distributions" =>
    /\ \A c \in {k \in {"a", "b"} : last.arg.df.dtype[k] = "number"} :
         DistributionRight(last.ret, ColumnName(last.arg.df.schema, c),
                           SortedValues(col_data(last.arg.df, c), 0))
    /\ last.arg.df \in {ExampleFrame(schema) : schema \in EdaSchemas} =>
         ExampleRight(last.ret, SortedValues(col_data(last.arg.df, "a"), 0))

\* _analyze_distributions has run on the example frame and flagged its one
\* outlier
C24_Witness ==
  /\ last.op = "analyze_distributions"
  /\ last.arg.df = ExampleFrame("plain")
  /\ last.ret.flags = <<EdaFlag("outliers", <<AmtCol>>, 1)>>

\* the profile the same call gives when the basic_stats phase is disabled
WithoutBasicStats(call) ==
  run_eda(call.arg.df, call.arg.enabled \ {"basic_stats"}, call.arg.today)

\* C28: the distribution analysis, the relationship analysis and the flags
\* of a profile are those of the same table profiled with the basic_stats
\* phase disabled.
C28_BasicStatsLeaveRowsAlone ==
  last.op = "EDAAnalyzer.run_eda" =>
    /\ last.ret.distribution_analysis = WithoutBasicStats(last).distribution_analysis
    /\ last.ret.relationship_analysis = WithoutBasicStats(last).relationship_analysis
    /\ last.ret.flags = WithoutBasicStats(last).flags

\* the flags of an analysis of the profile, none when the phase did not run
FlagsOf(analysis) == IF Len(analysis) = 0 THEN <<>> ELSE analysis[1].flags

\* the columns of the profile's null summary whose null_percentage is above
\* 30 as floating point has it: (3 / 10) * 100 is 30.000000000000004
ColumnsOver30(profile) ==
  IF Len(profile.basic_stats) = 0 THEN {}
  ELSE {<<e.column>> : e \in {x \in SeqToSet(profile.basic_stats[1].null_summary) :
                               x.null_percentage.n >= 30 * x.null_percentage.d}}

Asked(profile, trigger, columns) ==
  Len(SelectSeq(profile.typical_questions, LAMBDA q : q.trigger = trigger /\ q.columns = columns))

Raised(profile, type, columns) ==
  Len(SelectSeq(profile.flags, LAMBDA f : f.type = type /\ f.columns = columns))

AllColumns(df) ==
  {<<ColumnName(df.schema, "a")>>, <<ColumnName(df.schema, "b")>>,
   <<ColumnName(df.schema, "a"), ColumnName(df.schema, "b")>>}

QuestionsFollow(profile, df) ==
  /\ \A q \in SeqToSet(profile.typical_questions) :
       /\ q.trigger \in {"null_percentage > 30", "outliers_detected", "high_correlation_detected"}
       /\ q.columns \in AllColumns(df)
  /\ \A columns \in AllColumns(df) :
       /\ Asked(profile, "null_percentage > 30", columns)
            = (IF columns \in ColumnsOver30(profile) THEN 1 ELSE 0)
       /\ Asked(profile, "outliers_detected", columns) = Raised(profile, "outliers", columns)
       /\ Asked(profile, "high_correlation_detected", columns)
            = Raised(profile, "high_correlation", columns)

\* the phases that ran are those the rules enable; the time-series phase
\* also needs a column with a date-like name
PhasesFollowRules(profile, df, enabled) ==
  /\ Len(profile.basic_stats) = 1 <=> "basic_stats" \in enabled
  /\ Len(profile.distribution_analysis) = 1 <=> "distribution_analysis" \in enabled
  /\ Len(profile.relationship_analysis) = 1 <=> "relationship_analysis" \in enabled
  /\ Len(profile.time_series_analysis) = 1
       <=> ("time_series_analysis" \in enabled /\ DateLike(ColumnName(df.schema, "b")))

====
